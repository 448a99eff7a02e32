----------------------------- MODULE Serializer -----------------------------
(***************************************************************************)
(* serializer and cached_t (src/stan/math/prim/functor/serializer.hpp).   *)
(* A serializer holds an int stream data_i and a real stream data_r, each  *)
(* with a read cursor.  pack appends to them (a vector: its size to data_i, *)
(* then its elements); unpack<T> reads in the same shape.                  *)
(*                                                                         *)
(* The run follows a closure's arguments through the two-pass protocol:    *)
(* pack_data of every argument into one serializer (only arithmetic ones   *)
(* write), pack_vars of every argument into another (only var ones write), *)
(* a cached_t per argument built from the first (arithmetic ones unpack    *)
(* their value), then instantiate per argument from the second (var ones   *)
(* unpack).  Values are small integers; "real" values stand for doubles.   *)
(***************************************************************************)
EXTENDS Naturals, SequencesExt

CONSTANTS
  IntVals,   \* values of int scalars (sizes are ints too)
  RealVals,  \* values of double / var scalars
  MaxLen,    \* longest vector
  MaxArgs,   \* most arguments of one closure
  NoVal      \* the empty cached_t of a var argument

VARIABLES args, sd, sv, pc, k, cached, out, overread

vars == <<args, sd, sv, pc, k, cached, out, overread>>

(* A type is <<"int">>, <<"real">> (double), <<"var">> or <<"vec", t>>   *)
(* (std::vector<t>).                                                      *)
TInt == <<"int">>
TReal == <<"real">>
TVar == <<"var">>
VecOf(t) == <<"vec", t>>

(* Argument types: st_arithmetic ones are "data", the others "var". *)
DataTypes == {TInt, TReal, VecOf(TInt), VecOf(TReal), VecOf(VecOf(TInt))}
VarTypes == {TVar, VecOf(TVar)}

RECURSIVE ValuesOf(_)
ValuesOf(t) ==
  CASE t[1] = "int" -> IntVals
    [] t[1] \in {"real", "var"} -> RealVals
    [] OTHER -> SeqOf(ValuesOf(t[2]), MaxLen)

IsData(t) == t \in DataTypes

Arg == UNION {[type : {t}, val : ValuesOf(t)] : t \in DataTypes \cup VarTypes}

(* The ints and the reals pack(val) appends (lines 25, 34-35, 44-50). *)
RECURSIVE PackI(_, _), PackR(_, _)
PackI(t, v) ==
  CASE t[1] = "int" -> <<v>>
    [] t[1] \in {"real", "var"} -> <<>>
    [] OTHER -> <<Len(v)>> \o FlattenSeq([j \in DOMAIN v |-> PackI(t[2], v[j])])
PackR(t, v) ==
  CASE t[1] = "int" -> <<>>
    [] t[1] \in {"real", "var"} -> <<v>>
    [] OTHER -> FlattenSeq([j \in DOMAIN v |-> PackR(t[2], v[j])])

Pack(s, t, v) == [s EXCEPT !.i = @ \o PackI(t, v), !.r = @ \o PackR(t, v)]

(* read_i / read_r: data_i[pos_i++].  Reading at or past the end is       *)
(* undefined; the result records that it happened and stops the read.    *)
ReadI(s) ==
  IF s.pi < Len(s.i) THEN [ok |-> TRUE, val |-> s.i[s.pi + 1], s |-> [s EXCEPT !.pi = @ + 1]]
                     ELSE [ok |-> FALSE, val |-> 0, s |-> s]
ReadR(s) ==
  IF s.pr < Len(s.r) THEN [ok |-> TRUE, val |-> s.r[s.pr + 1], s |-> [s EXCEPT !.pr = @ + 1]]
                     ELSE [ok |-> FALSE, val |-> 0, s |-> s]

(* unpack<T>(): a scalar is one read; a vector reads its size n, then     *)
(* unpacks n elements (lines 52-60; a negative n reads none).  A read     *)
(* past the end stops it with the elements read so far.                   *)
RECURSIVE Unpack(_, _), UnpackN(_, _, _, _), UnpackNOneMore(_, _, _, _)
Unpack(t, s) ==
  CASE t[1] = "int" -> ReadI(s)
    [] t[1] \in {"real", "var"} -> ReadR(s)
    [] OTHER -> LET n == ReadI(s)
                IN IF n.ok THEN UnpackN(t[2], n.val, <<>>, n.s)
                           ELSE [n EXCEPT !.val = <<>>]
(* Mutant: the element loop runs to i <= n. *)
UnpackNOneMore(t, n, acc, s) ==
  IF Len(acc) >= n + 1 THEN [ok |-> TRUE, val |-> acc, s |-> s]
  ELSE LET e == Unpack(t, s)
       IN IF e.ok THEN UnpackN(t, n, Append(acc, e.val), e.s)
                  ELSE [e EXCEPT !.val = acc]

UnpackN(t, n, acc, s) ==
  IF Len(acc) >= n THEN [ok |-> TRUE, val |-> acc, s |-> s]
  ELSE LET e == Unpack(t, s)
       IN IF e.ok THEN UnpackN(t, n, Append(acc, e.val), e.s)
                  ELSE [e EXCEPT !.val = acc]

EmptySer == [i |-> <<>>, r |-> <<>>, pi |-> 0, pr |-> 0]

Init ==
  /\ args \in UNION {[1..n -> Arg] : n \in 1..MaxArgs}
  /\ sd = EmptySer /\ sv = EmptySer
  /\ pc = "packData" /\ k = 1
  /\ cached = <<>> /\ out = <<>>
  /\ overread = FALSE

Step(next) ==
  IF k < Len(args) THEN k' = k + 1 /\ pc' = pc ELSE k' = 1 /\ pc' = next

(* pack_data(val): packs an arithmetic argument, ignores a var one. *)
PackData ==
  /\ pc = "packData"
  /\ sd' = IF IsData(args[k].type) THEN Pack(sd, args[k].type, args[k].val) ELSE sd
  /\ Step("packVars")
  /\ UNCHANGED <<args, sv, cached, out, overread>>

(* pack_vars(val): packs a var argument, ignores an arithmetic one. *)
PackVars ==
  /\ pc = "packVars"
  /\ sv' = IF IsData(args[k].type) THEN sv ELSE Pack(sv, args[k].type, args[k].val)
  /\ Step("cache")
  /\ UNCHANGED <<args, sd, cached, out, overread>>

(* cached_t(st): the arithmetic specialisation unpacks its value now     *)
(* (line 99); the var one reads nothing (line 106).                      *)
MakeCached ==
  /\ pc = "cache"
  /\ IF IsData(args[k].type)
       THEN LET r == Unpack(args[k].type, sd)
            IN /\ sd' = r.s
               /\ cached' = Append(cached, r.val)
               /\ overread' = (overread \/ ~r.ok)
       ELSE /\ cached' = Append(cached, NoVal)
            /\ UNCHANGED <<sd, overread>>
  /\ Step("instantiate")
  /\ UNCHANGED <<args, sv, out>>

(* Mutant: instantiate unpacks from the vars serializer for every type. *)
InstantiateUnpacksAll ==
  /\ pc = "instantiate"
  /\ LET r == Unpack(args[k].type, sv)
     IN /\ sv' = r.s
        /\ out' = Append(out, r.val)
        /\ overread' = (overread \/ ~r.ok)
  /\ Step("done")
  /\ UNCHANGED <<args, sd, cached>>

(* instantiate(st): the cached value (line 100), or unpack<T> from the    *)
(* vars serializer (line 107).                                            *)
Instantiate ==
  /\ pc = "instantiate"
  /\ IF IsData(args[k].type)
       THEN /\ out' = Append(out, cached[k])
            /\ UNCHANGED <<sv, overread>>
       ELSE LET r == Unpack(args[k].type, sv)
            IN /\ sv' = r.s
               /\ out' = Append(out, r.val)
               /\ overread' = (overread \/ ~r.ok)
  /\ Step("done")
  /\ UNCHANGED <<args, sd, cached>>

Next == PackData \/ PackVars \/ MakeCached \/ Instantiate

Spec == Init /\ [][Next]_vars

-----------------------------------------------------------------------------
Ser == [i : Seq(Int), r : Seq(Int), pi : Nat, pr : Nat]

TypeOK ==
  /\ args \in Seq(Arg) /\ Len(args) \in 1..MaxArgs
  /\ sd \in Ser /\ sv \in Ser
  /\ pc \in {"packData", "packVars", "cache", "instantiate", "done"}
  /\ k \in 1..Len(args)
  /\ Len(cached) <= Len(args) /\ Len(out) <= Len(args)
  /\ \A j \in DOMAIN cached :
       cached[j] \in IF IsData(args[j].type) THEN ValuesOf(args[j].type) ELSE {NoVal}
  /\ \A j \in DOMAIN out : out[j] \in ValuesOf(args[j].type)
  /\ overread \in BOOLEAN

(* Round trip of a closure's arguments: after packing every argument with *)
(* pack_data and pack_vars, building a cached_t for each from the data    *)
(* serializer and instantiating each from the vars serializer, every      *)
(* argument comes back with its value, no read went past the end of a     *)
(* stream, and both serializers have been read to their ends.             *)
RoundTrip ==
  pc = "done" =>
    /\ out = [j \in DOMAIN args |-> args[j].val]
    /\ ~overread
    /\ sd.pi = Len(sd.i) /\ sd.pr = Len(sd.r)
    /\ sv.pi = Len(sv.i) /\ sv.pr = Len(sv.r)

=============================================================================
