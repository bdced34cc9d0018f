----------------------------- MODULE JsonDelta ------------------------------
(***************************************************************************)
(* The deltas between two JSON values (proto/json_delta.py).  A value is a *)
(* pair: its kind and what it holds.  The code compares two values with    *)
(* Python's ==, to which false and 0 are the same.  This module recurses   *)
(* over values and is for TLC alone.                                       *)
(***************************************************************************)
EXTENDS Naturals, Sequences, FiniteSets, SequencesExt, FiniteSetsExt

CONSTANTS MaxOps, MaxDepth   \* MAX_DELTA_OPS, MAX_DELTA_PATH_DEPTH

Num(n) == <<"number", n>>
Bool(b) == <<"boolean", b>>        \* b is 0 or 1
List(s) == <<"list", s>>
Obj(f) == <<"object", f>>
Broken == <<"broken", 0>>          \* JsonDeltaError

(* ==, as _diff and _diff_list use it                                       *)
RECURSIVE Same(_, _)
Same(a, b) ==
    IF {a[1], b[1]} \subseteq {"number", "boolean"} THEN a[2] = b[2]
    ELSE /\ a[1] = b[1]
         /\ CASE a[1] = "list" -> Len(a[2]) = Len(b[2]) /\ \A i \in DOMAIN a[2] : Same(a[2][i], b[2][i])
              [] a[1] = "object" -> DOMAIN a[2] = DOMAIN b[2] /\ \A k \in DOMAIN a[2] : Same(a[2][k], b[2][k])
              [] OTHER -> a[2] = b[2]

SetOp(path, value) == <<[op |-> "set", path |-> path, value |-> value]>>
Splice(path, index, delete, items) ==
    <<[op |-> "splice", path |-> path, index |-> index, delete |-> delete, items |-> items]>>

(* _diff_list: what is equal in front and behind stays; else the oldest     *)
(* entries of a history are dropped and the new ones appended               *)
DiffList(p, c, path) ==
    LET shorter == Min({Len(p), Len(c)})
        prefix == Max({n \in 0..shorter : \A i \in 1..n : Same(p[i], c[i])})
        suffix == Max({n \in 0..(shorter - prefix) :
                         \A i \in 0..(n - 1) : Same(p[Len(p) - i], c[Len(c) - i])})
        drops == {d \in 1..(Len(p) - 1) : /\ Len(p) - d <= Len(c)
                                          /\ \A i \in 1..(Len(p) - d) : Same(p[d + i], c[i])}
        overlap == Len(p) - Min(drops) IN
    IF prefix + suffix > 0
    THEN Splice(path, prefix, Len(p) - suffix - prefix, SubSeq(c, prefix + 1, Len(c) - suffix))
    ELSE IF drops = {} THEN Splice(path, 0, Len(p), c)
    ELSE Splice(path, 0, Min(drops), <<>>)
         \o (IF overlap < Len(c) THEN Splice(path, overlap, 0, SubSeq(c, overlap + 1, Len(c))) ELSE <<>>)

(* _diff *)
RECURSIVE Diff(_, _, _)
Diff(p, c, path) ==
    IF Same(p, c) THEN <<>>
    ELSE IF p[1] = "object" /\ c[1] = "object"
    THEN LET old == DOMAIN p[2]
             new == DOMAIN c[2]
             each(keys, Op(_)) == FlattenSeq([i \in 1..Cardinality(keys) |-> Op(SetToSeq(keys)[i])]) IN
         each(old \ new, LAMBDA k : <<[op |-> "remove", path |-> Append(path, k)]>>)
         \o each(old \cap new, LAMBDA k : Diff(p[2][k], c[2][k], Append(path, k)))
         \o each(new \ old, LAMBDA k : SetOp(Append(path, k), c[2][k]))
    ELSE IF p[1] = "list" /\ c[1] = "list" THEN DiffList(p[2], c[2], path)
    ELSE SetOp(path, c)

(* make_json_delta *)
MakeDelta(previous, current) ==
    LET ops == Diff(previous, current, <<>>) IN
    IF Len(ops) > MaxOps \/ \E i \in DOMAIN ops : Len(ops[i].path) > MaxDepth
    THEN SetOp(<<>>, current) ELSE ops
-----------------------------------------------------------------------------
(* One operation at the end of its path: _set_child, _remove_child, splice  *)
Holding(f, k, value) == [x \in DOMAIN f \union {k} |-> IF x = k THEN value ELSE f[x]]
Spliced(v, op) ==
    IF v[1] # "list" \/ op.index + op.delete > Len(v[2]) THEN Broken
    ELSE List(SubSeq(v[2], 1, op.index) \o op.items \o SubSeq(v[2], op.index + op.delete + 1, Len(v[2])))

RECURSIVE Edited(_, _, _)
Edited(v, path, op) ==
    IF path = <<>> THEN CASE op.op = "set" -> op.value [] op.op = "splice" -> Spliced(v, op) [] OTHER -> Broken
    ELSE IF v[1] # "object" THEN Broken
    ELSE IF Len(path) = 1 /\ op.op = "set" THEN Obj(Holding(v[2], path[1], op.value))
    ELSE IF path[1] \notin DOMAIN v[2] THEN Broken
    ELSE IF Len(path) = 1 /\ op.op = "remove" THEN Obj([k \in DOMAIN v[2] \ {path[1]} |-> v[2][k]])
    ELSE LET inner == Edited(v[2][path[1]], Tail(path), op) IN
         IF inner = Broken THEN Broken ELSE Obj(Holding(v[2], path[1], inner))

(* apply_json_delta: the whole delta, or an error                           *)
ApplyDelta(previous, ops) ==
    IF Len(ops) > MaxOps \/ \E i \in DOMAIN ops : Len(ops[i].path) > MaxDepth THEN Broken
    ELSE FoldLeft(LAMBDA v, op : IF v = Broken THEN Broken ELSE Edited(v, op.path, op), previous, ops)
=============================================================================
