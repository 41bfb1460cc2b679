------------------------------- MODULE PclDocument -------------------------------
(***************************************************************************)
(* The page description generators behind the PCL plugin: what the calls   *)
(* of the send thread (module PclSend) make of a job.  lib_pclm with       *)
(* genPCLm writes a PCLm file, which is a PDF with pages of numbered       *)
(* objects, a page tree and a cross-reference table; lib_pwg writes a PWG  *)
(* raster stream of pages with a header and rows.                          *)
(*                                                                         *)
(* The generator is told with START_PAGE how many strips a page has, and   *)
(* PCLm writes the references to their images before there are any; pages  *)
(* can be cut short, blank, given up, or lose a message on their way.      *)
(*                                                                         *)
(* mirrorBackside is false in every page setup, so the strips of back      *)
(* sides are not turned round (fixXRef and reverseOrder do nothing), and   *)
(* the compression is always JPEG.  Sizes of images and matrices are left  *)
(* out; an offset is counted in objects and job tickets.                   *)
(***************************************************************************)
EXTENDS PclSend, SequencesExt, Subsequences

CONSTANTS
  Languages,     (* which of "PCLm" and "PWG" the printer wants              *)
  MarginStrips   (* how many strips fill the top margin                      *)

ASSUME DocumentAssumption ==
  /\ Languages \subseteq {"PCLm", "PWG"}
  /\ MarginStrips \subseteq Nat

VARIABLES
  doc,    (* the generator and what it has written                           *)
  told    (* history: what the job thread said of each page                  *)

dvars == <<doc, told>>

(***************************************************************************)
(* PCLm: objects of a PDF.                                                 *)
(***************************************************************************)
Catalog == 1
Tree    == 2

object(kind, num, page, strip, refs) ==
  [kind |-> kind, num |-> num, page |-> page, strip |-> strip, refs |-> refs]

(* statOutputFileSize before each of them: the table of offsets grows.  An *)
(* offset is what genPCLm has written itself so far.                       *)
Written(d, objects) ==
  [d EXCEPT !.items = @ \o objects,
            !.xRef  = @ \o [i \in 1 .. Len(objects) |-> Len(d.items) + i]]

(* Each strip is an image and a transformation, numbered one after the     *)
(* other.  Strip 0 is white and belongs to the margin.                     *)
StripObjects(d, page, strips) ==
  [k \in 1 .. 2 * Len(strips) |->
     object(IF k % 2 = 1 THEN "image" ELSE "transform", d.objCounter + k - 1,
            page, strips[(k + 1) \div 2], << >>)]

injectJPEG(d, page, strips) ==
  [Written(d, StripObjects(d, page, strips)) EXCEPT !.objCounter = @ + 2 * Len(strips)]

(* Mutant: the margin has no strips of its own.                            *)
ImageRefsUnshifted(d, strips) ==
  [i \in 1 .. strips |-> d.objCounter + 2 + 2 * (i - 1)]

(* The images a page says it has: their numbers follow those of the page   *)
(* and of its contents, leaving out those of the transformations.          *)
ImageRefs(d, strips) ==
  [i \in 1 .. d.margin + strips |-> d.objCounter + 2 + 2 * (i - 1)]

(* writePDFGrammarPage: the page object and its contents.                  *)
GrammarPage(d, page, strips) ==
  LET n == d.objCounter IN
    [Written(d, << object("page", n, page, strips, ImageRefs(d, strips)),
                   object("contents", n + 1, page, strips, << >>) >>)
       EXCEPT !.objCounter = n + 2, !.kids = Append(@, n)]

(* writePDFGrammarTrailer: the catalog and the page tree come last but     *)
(* have the first numbers, so that the table has two sections; their       *)
(* offsets and that of the table itself are the last three.                *)
GrammarTrailer(d) ==
  LET w     == Written(d, << object("catalog", Catalog, 0, 0, <<Tree>>),
                             object("tree", Tree, 0, 0, d.kids) >>)
      xRef  == Append(w.xRef, Len(w.items) + 1)
      index == Len(xRef) + 1
  IN  [w EXCEPT !.xRef = xRef, !.ended = TRUE,
         !.trailer = [first |-> Tree + 1, body |-> SubSeq(xRef, 1, index - 4),
                      last  |-> <<xRef[index - 3], xRef[index - 2]>>,
                      size  |-> index - 1, start |-> xRef[index - 1]]]

(***************************************************************************)
(* PWG: a header that announces the strips of a page, and its strips.  The *)
(* raster library drops what comes after them.                             *)
(***************************************************************************)
Sheet(d, page, strips) ==
  [d EXCEPT !.items = Append(@, object("sheet", strips, page, 0, << >>))]

RasterRows(d) ==
  LET n == Len(d.items) IN
    IF n > 0 /\ d.items[n].strip < d.items[n].num
      THEN [d EXCEPT !.items[n].strip = @ + 1] ELSE d

(* lib_pclm writes a job ticket before each page past genPCLm, which does  *)
(* not count it.  What is kept is the object before which it stands.       *)
JobTicket(d) == [d EXCEPT !.tickets = @ \cup {Len(d.items) + 1}]

(***************************************************************************)
(* The calls of the send thread.  At the end of a page PCLm gives the      *)
(* buffer for compressed strips back: a strip outside of any page would be *)
(* compressed into no buffer at all, and nothing is known of the rest.     *)
(***************************************************************************)
StartPage(d, page, strips) ==
  IF d.language = "PWG" THEN Sheet(d, page, strips)
  ELSE [GrammarPage(JobTicket(d), page, strips)
          EXCEPT !.scratch = TRUE, !.firstStrip = TRUE]

PrintSwath(d, page, strip) ==
  IF d.language = "PWG" THEN RasterRows(d)
  ELSE IF ~d.scratch THEN [d EXCEPT !.undefined = TRUE]
  ELSE LET white == IF d.firstStrip THEN [i \in 1 .. d.margin |-> 0] ELSE << >> IN
         [injectJPEG(d, page, white \o <<strip>>)
            EXCEPT !.firstStrip = IF d.margin > 0 THEN FALSE ELSE @]

(* Mutant: blank pages are not started.                                    *)
EndOfPageNoBlank(d, page, blank) == [d EXCEPT !.scratch = FALSE]

(* PCLm makes a page of an end of page without a number; PWG does not.     *)
EndOfPage(d, page, blank) ==
  [(IF blank /\ d.language = "PCLm" THEN StartPage(d, page, 0) ELSE d)
     EXCEPT !.scratch = FALSE]

EndOfJob(d) ==
  IF d.language = "PWG" THEN [d EXCEPT !.ended = TRUE] ELSE GrammarTrailer(d)

NoTrailer == [first |-> 0, body |-> << >>, last |-> << >>, size |-> 0, start |-> 0]

DocInit ==
  /\ Init
  /\ \E l \in Languages, m \in MarginStrips \cup {0} :
       /\ l = "PWG" => m = 0
       /\ doc = [language |-> l, margin |-> m, items |-> << >>, tickets |-> {},
                 xRef |-> << >>, kids |-> << >>, objCounter |-> Tree + 1,
                 scratch |-> FALSE, firstStrip |-> FALSE, ended |-> FALSE,
                 undefined |-> FALSE, trailer |-> NoTrailer]
  /\ told = [strips |-> [p \in Pages |-> 0], lost |-> {}, cut |-> {}]

(***************************************************************************)
(* The job thread.  A page is lost when nothing of it comes to the         *)
(* generator that would make it a page, and cut when it has fewer strips   *)
(* than were announced.                                                    *)
(***************************************************************************)
Unheard(p) == IF HasRoom THEN {} ELSE {p}

Begins(n) ==
  /\ BeginPage(n)
  /\ told' = [told EXCEPT !.strips[prod.page + 1] = n,
                          !.lost = @ \cup Unheard(prod.page + 1)]

GivesUp ==
  /\ AbandonPage
  /\ told' = [told EXCEPT !.lost = @ \cup {prod.page + 1}]

SendsBlank ==
  /\ BlankPage
  /\ told' = [told EXCEPT !.lost = @ \cup Unheard(prod.page + 1)]

Ends ==
  /\ EndPage
  /\ told' = IF told.strips[prod.page] > 0 THEN told
             ELSE [told EXCEPT !.lost = @ \cup Unheard(prod.page)]

SendsStrip ==
  /\ SendStripe
  /\ told' = [told EXCEPT !.cut = @ \cup Unheard(prod.page)]

Fails ==
  /\ FillFails
  /\ told' = [told EXCEPT !.cut = @ \cup {prod.page}]

JobSide ==
  \/ \E n \in Stripes : Begins(n)
  \/ GivesUp \/ SendsBlank \/ Ends \/ SendsStrip \/ Fails
  \/ /\ UNCHANGED told
     /\ \/ \E n \in 0 .. (MaxSendBuffs - 1) : BreakPage(n)
        \/ WaitBuffer \/ Fill \/ LoopEnds \/ EndJob \/ Join

(***************************************************************************)
(* The send thread.  Nothing is written any more once it is undefined what *)
(* the generator does.                                                     *)
(***************************************************************************)
Calls(d) == doc' = IF doc.undefined THEN doc ELSE d

WritesPage ==
  /\ StartsPage
  /\ LET p == Head(queue).page IN Calls(StartPage(doc, p, told.strips[p]))

WritesSwath ==
  /\ EndsSwath
  /\ Calls(PrintSwath(doc, send.msg.page, send.msg.row + 1))

WritesEnd ==
  /\ EndsPage
  /\ LET p == Head(queue).page IN Calls(EndOfPage(doc, p, told.strips[p] = 0))

(* lib_pwg gives a buffer back to a generator it has never made, so that   *)
(* the job may end, or nothing is known of what comes after its rows.      *)
WritesTrailer ==
  /\ EndsJob
  /\ \/ Calls(EndOfJob(doc))
     \/ doc.language = "PWG" /\ Calls([doc EXCEPT !.undefined = TRUE])

SendSide ==
  \/ WritesPage \/ WritesSwath \/ WritesEnd \/ WritesTrailer
  \/ UNCHANGED doc /\ (StartsJob \/ BeginsSwath)

DocNext ==
  \/ Cancel /\ UNCHANGED dvars
  \/ JobSide /\ UNCHANGED doc
  \/ SendSide /\ UNCHANGED told

DocSpec == DocInit /\ [][DocNext]_<<vars, dvars>>

(* Both threads run on, as in FairSpec; the job thread's steps write only  *)
(* what the generator is told, the send thread's only the document.        *)
FairDocSpec ==
  /\ DocSpec
  /\ WF_<<vars, dvars>>(JobSide /\ UNCHANGED doc)
  /\ WF_<<vars, dvars>>(SendSide /\ UNCHANGED told)

-----------------------------------------------------------------------------
(* What the generator keeps: the numbers of objects and their offsets grow *)
(* together until the trailer is written.                                  *)
DocTypeOK ==
  /\ doc.language \in Languages /\ doc.margin \in MarginStrips \cup {0}
  /\ \A o \in Range(doc.items) :
       /\ o.kind \in {"page", "contents", "image", "transform", "catalog", "tree", "sheet"}
       /\ o.page \in Pages \cup {0}
       /\ o.num \in Nat /\ o.strip \in Nat /\ o.refs \in Seq(Nat)
  /\ doc.tickets \subseteq DOMAIN doc.items
  /\ doc.xRef \in Seq(Nat) /\ doc.kids \in Seq(Nat) /\ doc.objCounter \in Nat
  /\ doc.language = "PCLm" /\ ~doc.ended =>
       Len(doc.xRef) = Len(doc.items) /\ doc.objCounter = Len(doc.items) + Tree + 1
  /\ {doc.scratch, doc.firstStrip, doc.ended, doc.undefined} \subseteq BOOLEAN
  /\ told.strips \in [Pages -> {0} \cup Stripes]
  /\ told.lost \subseteq Pages /\ told.cut \subseteq Pages

Objects   == Range(doc.items)
IsPage(o) == o.kind \in {"page", "sheet"}
PagePlaces == {i \in DOMAIN doc.items : IsPage(doc.items[i])}
PageOrder == LET pages == Kept(doc.items, PagePlaces) IN [i \in DOMAIN pages |-> pages[i].page]
Images(p) == {i \in DOMAIN doc.items : doc.items[i].kind = "image" /\ doc.items[i].page = p}
Numbered(n) == {o \in Objects : o.num = n}

(* Where an object begins in the file: behind the objects and the tickets  *)
(* before it.                                                              *)
Offset(i) == i + Cardinality({t \in doc.tickets : t <= i})

(* What the cross-reference table says of the object of a number.          *)
place(n) == LET t == doc.trailer IN
  IF n < t.first THEN t.last[n] ELSE t.body[n - t.first + 1]

(* The cross-reference table of a PCLm file leads to its objects, and the  *)
(* trailer to the table.  The code does not keep this: genPCLm counts what *)
(* it writes itself, and lib_pclm has written the job tickets.             *)
XrefIsTrue ==
  doc.ended /\ doc.language = "PCLm" =>
    /\ \A i \in DOMAIN doc.items : place(doc.items[i].num) = Offset(i)
    /\ doc.trailer.start = Offset(Len(doc.items) + 1)

(* How far the table falls short at a place: by a ticket for each page that*)
(* was begun, also a blank one and one that was cut.                       *)
Shortfall(i) == Cardinality({j \in PagePlaces : j <= i})

(* The cross-reference table of a PCLm file is wrong by its job tickets and*)
(* by nothing else, whatever became of its pages: every object has one     *)
(* entry, under its own number, that falls short of it by the tickets of   *)
(* the pages begun up to it, and so does what the trailer says of the      *)
(* table; the page tree names the page objects, all of them in their order.*)
XrefIsShort ==
  doc.ended /\ doc.language = "PCLm" =>
    LET t == doc.trailer
        n == Len(doc.items)
    IN  /\ t.size - 1 = n /\ Len(t.body) = t.size - t.first
        /\ {doc.items[i].num : i \in 1 .. n} = 1 .. n
        /\ \A i \in 1 .. n : place(doc.items[i].num) = Offset(i) - Shortfall(i)
        /\ t.start = Offset(n + 1) - Shortfall(n + 1)
        /\ \A o \in Numbered(Catalog) : \A r \in Range(o.refs) :
             \A tree \in Numbered(r) :
               [i \in 1 .. Len(tree.refs) |-> (CHOOSE o2 \in Numbered(tree.refs[i]) : TRUE).page]
                 = PageOrder

(* The k-th image that a page refers to is the k-th strip that was sent    *)
(* for it, white strips of the margin first, although the numbers are      *)
(* given before the strips come and other pages were cut before it.        *)
ImagesAreFound ==
  doc.language = "PCLm" =>
    \A o \in Objects : o.kind = "page" =>
      \A i \in Images(o.page) :
        LET k == Rank(Images(o.page), i) IN
          /\ k <= Len(o.refs) /\ o.refs[k] = doc.items[i].num
          /\ doc.items[i].strip = IF k <= doc.margin THEN 0 ELSE k - doc.margin

(* A page that was neither cut nor lost has all its strips when the job is *)
(* over: as many as its header or its contents say.                        *)
PagesAreWhole ==
  doc.ended => \A o \in Objects :
    IsPage(o) /\ told.strips[o.page] > 0 /\ o.page \notin told.cut =>
      IF o.kind = "sheet" THEN o.strip = o.num
      ELSE Cardinality(Images(o.page)) = Len(o.refs)

(* Whatever a page of a finished file refers to is an image of its own,    *)
(* unless the page was cut, or is blank below a margin of white strips: the*)
(* numbers that were kept for the missing images are those of objects of   *)
(* other pages then, or of none.                                           *)
ReferencesLeadHome ==
  doc.ended /\ doc.language = "PCLm" =>
    \A o \in Objects :
      /\ o.kind = "page" /\ o.page \notin told.cut
      /\ told.strips[o.page] > 0 \/ doc.margin = 0
      => \A r \in Range(o.refs) : \E i \in Images(o.page) : doc.items[i].num = r

(* The pages of a finished document are those of the job that were not     *)
(* lost, each once and in their order, so that fronts and backs do not     *)
(* change sides; blank pages are pages in PCLm, and are not there in PWG.  *)
PagesInOrder ==
  doc.ended /\ ~doc.undefined =>
    PageOrder = Kept([p \in 1 .. prod.page |-> p],
                     {p \in 1 .. prod.page : /\ p \notin told.lost
                                             /\ doc.language = "PWG" => told.strips[p] > 0})

(* A PCLm strip comes when its page has been started, unless the message   *)
(* that starts the page met a full queue.                                  *)
StripsHavePages ==
  doc.language = "PCLm" /\ doc.undefined => \E p \in told.lost : told.strips[p] > 0

(* The parts of a PCLm file refer to each other, whether the job was       *)
(* printed, broken or cancelled, with the errors that XrefIsShort and      *)
(* ReferencesLeadHome name and no other.                                   *)
DocumentIsSound ==
  TypeOK /\ DocTypeOK /\ XrefIsShort /\ ImagesAreFound /\ ReferencesLeadHome

(* What the job thread hands to the send thread arrives in the document.   *)
PagesArrive == PagesAreWhole /\ PagesInOrder /\ StripsHavePages
=============================================================================
