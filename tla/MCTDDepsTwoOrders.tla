-------------------------- MODULE MCTDDepsTwoOrders --------------------------
(***************************************************************************)
(* Two orders of pass 1 over every include graph of one .td file, two      *)
(* headers, a template header and an unresolved name.                      *)
(***************************************************************************)
EXTENDS TDDepsTwoOrders

CONSTANTS a, b, c, t, p

MCScanned == {a, b, c}
MCTD == {{a}}
MCTemplates == {t}
MCPlaceholders == {p}
MCAllGraphs == [MCScanned -> SUBSET (MCScanned \cup MCTemplates \cup MCPlaceholders)]
=============================================================================
