----------------------------- MODULE MCWprintJobs -----------------------------
(***************************************************************************)
(* Small instances of the spooler for TLC.                                 *)
(***************************************************************************)
EXTENDS WprintJobs

kind(dir, n, ipp, dup, doc) ==
  [isDir |-> dir, copies |-> n, monitored |-> ipp, duplex |-> dup, pdf |-> doc]

(* Images printed page by page over IPP.                                   *)
PagesIpp    == {kind(TRUE, 1, TRUE, FALSE, FALSE)}
(* Page by page in two copies, over IPP, and to a port or a file on both   *)
(* sides.                                                                  *)
CopiesKinds == {kind(TRUE, 2, TRUE, FALSE, FALSE),
                kind(TRUE, 2, FALSE, TRUE, FALSE)}
(* Single files: an image over IPP in two copies, a PDF whose copies the   *)
(* printer makes, and an image to a port.                                  *)
SingleKinds == {kind(FALSE, 2, TRUE, FALSE, FALSE),
                kind(FALSE, 2, TRUE, FALSE, TRUE),
                kind(FALSE, 1, FALSE, TRUE, FALSE)}
AllKinds == CopiesKinds \cup SingleKinds
SinglePort == {kind(FALSE, 1, FALSE, FALSE, FALSE)}
LiveKinds  == {kind(TRUE, 1, TRUE, FALSE, FALSE),
               kind(FALSE, 1, TRUE, FALSE, FALSE)}

(* A part of what get_PrinterState of the IPP monitor can report.          *)
FewReports  == {"idle", "printing", "needsCare"}
=============================================================================
