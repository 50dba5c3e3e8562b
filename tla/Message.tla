-------------------------------- MODULE Message --------------------------------
(***************************************************************************)
(* What travels between the parts: the types and values of protocol.py and *)
(* collectd_types.py, their sum, their packing into the parts of a         *)
(* datagram and back, and the translation of internal to external types    *)
(* (stream.py 14-62).                                                      *)
(*                                                                         *)
(* Times and intervals are in half seconds; a datagram holds whole         *)
(* seconds.  A part is a pair of type code and payload; how its bytes are  *)
(* laid out is left to struct.                                             *)
(***************************************************************************)
EXTENDS Integers, Sequences, SequencesExt

CONSTANTS
  None,
  NonAscii      \* the names that encode("ascii") refuses

Whole(time) == 2 * (time \div 2)          \* int(), as a number of half seconds

-----------------------------------------------------------------------------
\* Type(name, *db_template) and the types there are.
Type(name, names, kind) == [name |-> name, names |-> names, kind |-> kind]

pool_internal ==
  Type("sqlalchemy_pool", <<"numpools", "checkedout", "checkedin", "detached", "connections">>, "count")
process_internal == Type("sqlalchemy_process", <<"numprocs">>, "count")
totals_internal ==
  Type("sqlalchemy_totals", <<"checkouts", "invalidated", "connects", "disconnects">>, "derive")

internal_types == {pool_internal, process_internal, totals_internal}
external_types == {Type("count", <<"value">>, "count"), Type("derive", <<"value">>, "derive")}

TypeNames(types) == {type.name : type \in types}

-----------------------------------------------------------------------------
Slots == {"type", "type_instance", "plugin", "plugin_instance", "host", "time", "interval", "values"}

DEFAULT_INTERVAL == 20

\* Values(**kw)
Values(kw) ==
  LET v == [slot \in Slots |-> IF slot \in DOMAIN kw THEN kw[slot] ELSE None]
  IN  IF v.interval = None THEN [v EXCEPT !.interval = DEFAULT_INTERVAL] ELSE v

Build(v, kw) == Values([slot \in Slots |-> IF slot \in DOMAIN kw THEN kw[slot] ELSE v[slot]])

Shorter(s, t) == IF Len(s) < Len(t) THEN Len(s) ELSE Len(t)

\* Values.__add__ of two Values: what they differ in is None in the sum.
Add(v, other) ==
  LET differing == {slot \in Slots \ {"values"} : v[slot] # other[slot]}
  IN  Build(v, [slot \in differing \cup {"values"} |->
                  IF slot = "values"
                    THEN [i \in 1..Shorter(v.values, other.values) |-> v.values[i] + other.values[i]]
                    ELSE None])

\* sum() of at least one Values; adding the first to 0 leaves it as it is.
Sum(recs) == FoldLeft(Add, Head(recs), Tail(recs))

-----------------------------------------------------------------------------
\* A datagram is a sequence of parts, in this order; the empty one stands for what
\* pack_values raises.
Codes == <<"HOST", "TIME", "PLUGIN", "PLUGIN_INSTANCE", "TYPE", "INTERVAL", "TYPE_INSTANCE", "VALUES">>

SlotOf ==
  [HOST |-> "host", TIME |-> "time", PLUGIN |-> "plugin", PLUGIN_INSTANCE |-> "plugin_instance",
   TYPE |-> "type", INTERVAL |-> "interval", TYPE_INSTANCE |-> "type_instance", VALUES |-> "values"]

Strings == {"HOST", "PLUGIN", "PLUGIN_INSTANCE", "TYPE", "TYPE_INSTANCE"}
Longs == {"TIME", "INTERVAL"}

Payload(code, value) ==
  CASE code \in Strings -> IF value = None THEN "" ELSE value
    [] code \in Longs -> Whole(value)
    [] code = "VALUES" -> value

Packable(v, types) ==
  /\ v.type \in TypeNames(types)
  /\ \A code \in Strings : v[SlotOf[code]] \notin NonAscii

\* MessagePacker.pack_values
Pack(v, types) ==
  IF Packable(v, types)
    THEN [i \in DOMAIN Codes |-> <<Codes[i], Payload(Codes[i], v[SlotOf[Codes[i]]])>>]
    ELSE <<>>

\* _unpack_packet: parts of unknown codes are skipped, the last part of a code counts.
Parts(datagram) ==
  LET known == {i \in DOMAIN datagram : datagram[i][1] \in DOMAIN SlotOf}
  IN  [code \in {datagram[i][1] : i \in known} |->
         LET last == CHOOSE i \in known : datagram[i][1] = code /\ \A j \in known : datagram[j][1] = code => j <= i
         IN  datagram[last][2]]

\* unpack_bytes returns None: no type, or none that this receiver knows.
Skipped(datagram, types) ==
  LET parts == Parts(datagram)
  IN  "TYPE" \notin DOMAIN parts \/ parts["TYPE"] \notin TypeNames(types)

\* _to_value raises KeyError: the type is known, another part is missing.
Incomplete(datagram, types) ==
  ~Skipped(datagram, types) /\ DOMAIN Parts(datagram) # DOMAIN SlotOf

Unpack(datagram) ==
  LET parts == Parts(datagram)
      code(slot) == CHOOSE c \in DOMAIN SlotOf : SlotOf[c] = slot
  IN  Values([slot \in Slots |-> parts[code(slot)]])

-----------------------------------------------------------------------------
\* StreamTranslator.break_into_individual_values, of values of an internal type.
Break(v) ==
  LET internal_type == CHOOSE type \in internal_types : type.name = v.type
  IN  [i \in 1..Shorter(internal_type.names, v.values) |->
         Build(v, [type |-> internal_type.kind, type_instance |-> internal_type.names[i],
                   values |-> <<v.values[i]>>])]

\* send_to_collectd: what is None is left out and collectd is to fill the interval in.
ToCollectd(v) ==
  [slot \in {s \in Slots : v[s] # None} |-> IF slot = "interval" THEN 0 ELSE v[slot]]
=============================================================================
