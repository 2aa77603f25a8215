---------------------------- MODULE MCTDDepsGroups ----------------------------
(***************************************************************************)
(* Three targets in sorted order: t0 (no add_* name, skipped), t1 with two *)
(* sources, t2 with one; three unresolved names a.inc, b.inc and a third   *)
(* whose stem is c (MCStems) or a_b (MCJoinStems).  Every choice of the    *)
(* four sources' deps is checked.                                          *)
(***************************************************************************)
EXTENDS TDDepsGroups

CONSTANTS t0, t1, t2, s0, s1, s2, s3, n1, n2, n3, wa, wb, wc, wNone

MCTargetOrder == <<t0, t1, t2>>
MCNamed == {t1, t2}
MCSrcsOf == (t0 :> {s0}) @@ (t1 :> {s1, s2}) @@ (t2 :> {s3})
MCNames == {n1, n2, n3}
MCRank == (n1 :> 1) @@ (n2 :> 2) @@ (n3 :> 3)
\* a.inc, b.inc, c.inc: every stem one word, all distinct.
MCStems == (n1 :> <<wa>>) @@ (n2 :> <<wb>>) @@ (n3 :> <<wc>>)
\* a.inc, b.inc, a_b.inc: {a.inc, b.inc} and {a_b.inc} are both "a_b".
MCJoinStems == (n1 :> <<wa>>) @@ (n2 :> <<wb>>) @@ (n3 :> <<wa, wb>>)
\* a and b are long enough that "a_b" passes the 40-character limit.
MCWordLen == (wa :> 20) @@ (wb :> 20) @@ (wc :> 4) @@ (wNone :> 4)
MCBase == (n1 :> "a.inc") @@ (n2 :> "b.inc") @@ (n3 :> "third.inc")
MCDepsChoices == [{s0, s1, s2, s3} -> SUBSET MCNames]
=============================================================================
