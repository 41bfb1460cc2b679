-------------------------- MODULE MCPrinterMonitors --------------------------
(***************************************************************************)
(* PrinterMonitors on two printers and two clients.                        *)
(***************************************************************************)
EXTENDS PrinterMonitors

CONSTANTS p1, p2, c1, c2

TwoPrinters == {p1, p2}
TwoClients  == {c1, c2}

(* Both follow one printer, or each its own.                               *)
SameOrOwn == {[c \in TwoClients |-> p1], [c \in TwoClients |-> IF c = c1 THEN p1 ELSE p2]}
=============================================================================
