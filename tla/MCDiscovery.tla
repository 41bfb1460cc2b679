----------------------------- MODULE MCDiscovery -----------------------------
(***************************************************************************)
(* Discovery on a small network.  One host cannot be printed on; the other *)
(* is a printer whose answer also holds an incomplete service, a nameless  *)
(* one, and one that follows that.                                         *)
(***************************************************************************)
EXTENDS Discovery

Printer(n) == [address |-> "a1", name |-> n, complete |-> TRUE, supported |-> TRUE, model |-> TRUE]

Other    == << [Printer("n2") EXCEPT !.supported = FALSE] >>
Server   == << [Printer("n2") EXCEPT !.complete = FALSE, !.model = FALSE],
               Printer("n1"), [Printer("n2") EXCEPT !.model = FALSE], Printer("n3") >>

OneAddress == {"a1"}
ThreeNames == {"n1", "n2", "n3"}
TwoHosts   == {"server", "other"}
Packets    == [server |-> Server, other |-> Other]
=============================================================================
