---------------------------- MODULE PrintedPage ----------------------------
(***************************************************************************)
(* A client, the parameters of its job, and a page of it: the client asks  *)
(* the print service for the final parameters of its settings, as often as *)
(* it likes, takes them over or not, and starts the job; the plugin then   *)
(* prints an image with these parameters (ImageStripes).                   *)
(***************************************************************************)
EXTENDS ImageStripes, JobParams

CONSTANTS
  Requests,   (* pairs of the attributes of a printer and settings         *)
  Drawn,      (* those whose pages are also drawn, a bound                 *)
  Images      (* the files                                                 *)

(* No margin is negative (updateJobParams takes a negative one of a client *)
(* for 0), and a client that names a quality names one there is.           *)
ASSUME RequestAssumption ==
  /\ Drawn \subseteq Requests
  /\ \A r \in Requests :
       LET margins == Given(r[2], "margins", NoMargins)
       IN /\ \A e \in Edges : r[1].margins[e] \in Nat
          /\ margins \in [Edges -> Nat]
          /\ Given(r[2], "quality", "normal") \in {"fast", "normal", "best"}
          /\ Given(r[2], "fit", FALSE) \in BOOLEAN /\ Given(r[2], "fill", FALSE) \in BOOLEAN

VARIABLES
  info,       (* the cached PrinterInfo: capabilities, default parameters  *)
  job         (* the request, the client's settings, Java's parameters     *)

jobVars == <<info, job>>
allVars == <<vars, info, job>>

NoInfo == [caps |-> "unknown"]
NoJob  == [stage |-> "none"]
NoPage == [mime |-> "none"]

-----------------------------------------------------------------------------
(* AbstractPrinterInfoTask: what the printer reports is asked for once.    *)
PrinterInfo(a) == [printer |-> a, caps |-> Capabilities(a), defaults |-> DefaultJobParams]

(* A client with its settings.                                             *)
Ask(r) ==
  /\ pc = "job" /\ job.stage = "none"
  /\ info # NoInfo => info.printer = r[1]
  /\ info' = IF info = NoInfo THEN PrinterInfo(r[1]) ELSE info
  /\ job' = [stage |-> "asked", request |-> r, settings |-> r[2], returned |-> FALSE]
  /\ UNCHANGED vars

(* The final parameters of settings: a copy of the defaults, updated; then *)
(* nativeGetFinalJobParameters.                                            *)
FinalParams(defaults, settings, caps) ==
  LET j == UpdateJobParams(Copy(defaults), settings)
  IN ToJava(j, GetFinal(ToC(j), caps))

(* The pages of the jobs that are drawn are among the pages, whether a     *)
(* client starts its job with its own settings or with those returned.     *)
ASSUME DrawnAssumption ==
  \A r \in Drawn, image \in Images, number \in {1, 2} :
    LET caps  == Capabilities(r[1])
        again == Merged(GetJobParams(FinalParams(DefaultJobParams, r[2], caps)), r[2])
    IN \A s \in {r[2], again} :
         PageOf([ToC(FinalParams(DefaultJobParams, s, caps)) EXCEPT !.pcl = PrintFormat(caps)],
                image, number) \in Pages

(* GetFinalJobParametersTask, and StartJobTask alike.                      *)
Resolve ==
  /\ pc = "job" /\ job.stage = "asked"
  /\ LET params == FinalParams(info.defaults, job.settings, info.caps)
     IN job' = [stage |-> "final", request |-> job.request, returned |-> job.returned,
                settings |-> job.settings, params |-> params]
  /\ UNCHANGED <<vars, info>>

(* GetFinalJobParametersTask returns them: the client's own settings go on *)
(* for what they do not say. It may leave it at that, or ask once more.    *)
Answer ==
  /\ pc = "job" /\ job.stage = "final"
  /\ job' = [stage |-> "answered", request |-> job.request,
             settings |-> Merged(GetJobParams(job.params), job.settings)]
  /\ UNCHANGED <<vars, info>>

TakeAnswer ==
  /\ pc = "job" /\ job.stage = "answered"
  /\ job' = [stage |-> "asked", request |-> job.request, settings |-> job.settings,
             returned |-> TRUE]
  /\ UNCHANGED <<vars, info>>

(* nativeStartJob: Java's parameters are converted once more.              *)
StartJob ==
  /\ pc = "job" /\ job.stage = "final"
  /\ job' = IF PrintFormat(info.caps) = "none" THEN NoJob
            ELSE [stage |-> "started", request |-> job.request, returned |-> job.returned,
                  native |-> [ToC(job.params) EXCEPT !.pcl = PrintFormat(info.caps)]]
  /\ UNCHANGED <<vars, info>>

(* _print_page starts with a file. The client and its task are done.       *)
PrintPage(image, number) ==
  /\ pc = "job" /\ job.stage = "started" /\ job.request \in Drawn
  /\ page' = PageOf(job.native, image, number)
  /\ pc' = "setup"
  /\ job' = NoJob
  /\ UNCHANGED <<c, dec, cache, win, req, out, sent, info>>

(* Another job, with nothing drawn of this one.                            *)
NextJob ==
  /\ pc = "job" /\ job.stage \in {"answered", "started"}
  /\ job' = NoJob
  /\ UNCHANGED <<vars, info>>

Draw == Next /\ UNCHANGED jobVars

PrintedInit == page = NoPage /\ pc = "job" /\ Fresh /\ info = NoInfo /\ job = NoJob

PrintedNext ==
  \/ \E r \in Requests : Ask(r)
  \/ Resolve \/ Answer \/ TakeAnswer \/ StartJob \/ NextJob
  \/ \E image \in Images, number \in {1, 2} : PrintPage(image, number)
  \/ Draw

(* The plugin's thread prints on.                                          *)
PrintedSpec == PrintedInit /\ [][PrintedNext]_allVars /\ WF_vars(Draw)

-----------------------------------------------------------------------------
(* The capabilities are those of the printer, and a page is drawn when its *)
(* client and its task are done.                                           *)
PrintedTypeOK ==
  /\ info = NoInfo \/ info.caps = Capabilities(info.printer)
  /\ job.stage \in {"none", "asked", "final", "answered", "started"}
  /\ IF pc = "job" THEN page = NoPage ELSE job = NoJob

Started == job.stage = "started"
Wanted  == job.request[2]

(* A client that wants its picture in the middle, by an alignment or       *)
(* because it prints a photo, gets it there, upright or sideways, though   *)
(* wprintGetFinalJobParams puts the alignment of an image to fit in the    *)
(* page back among the flags, and what it returns has no alignment.        *)
AlignmentKept ==
  Started /\ "center" \in Alignment(Wanted) =>
    \A image \in Images :
      {"centerH", "centerV"} \subseteq Flags(PageOf(job.native, image, 1))

(* Starting a job with what the service has returned as its final settings *)
(* prints like starting it with the settings themselves. (The orientation  *)
(* of an image to fit or fill the page is not returned.)                   *)
FinalSettles ==
  Started /\ job.returned =>
    LET direct == [ToC(FinalParams(DefaultJobParams, Wanted, info.caps))
                     EXCEPT !.pcl = PrintFormat(info.caps)]
    IN \/ job.native = direct
       \/ /\ Turn(Wanted) # {"autoRotate"}
          /\ Given(Wanted, "fit", FALSE) \/ Given(Wanted, "fill", FALSE)
          /\ [job.native EXCEPT !.flags = @ \ Orientations]
               = [direct EXCEPT !.flags = @ \ Orientations]

(* What a job is printed with depends on its own settings: nothing of the  *)
(* jobs before it is left in the cached default parameters.                *)
JobsAreIndependent ==
  job.stage = "final" =>
    job.params = FinalParams(DefaultJobParams, job.settings, info.caps)

(* Full bleed and duplex are given up only where the printer, margins the  *)
(* client wants, or full bleed granted instead of duplex forbid it, and    *)
(* the page has the quality asked for if the printer has it.               *)
WishesGranted ==
  Started =>
    LET n == job.native
        bleed == Given(Wanted, "fullBleed", "off") = "on"
    IN /\ n.borderless <=> /\ bleed /\ info.caps.borderless
                           /\ Given(Wanted, "margins", NoMargins) = NoMargins
       /\ n.duplex # Given(Wanted, "sides", "none") => ~ info.caps.duplex \/ n.borderless
       /\ ~ (n.borderless /\ n.duplex # "none")
       /\ Given(Wanted, "quality", "normal") \in info.caps.qualities =>
            n.quality = Given(Wanted, "quality", "normal")

(* What stays blank at each edge is the margin asked for or that of the    *)
(* printer, whichever is the larger, to a pixel and no more than that; and *)
(* what is left of the sheet is printed on, if that is a pixel.            *)
MarginsHonoured ==
  Started =>
    LET n        == job.native
        own      == DefaultMargins(n, info.caps)
        asked    == Given(Wanted, "margins", NoMargins)
        most(e)  == Greatest(own[e], asked[e])
        blank(e) == own[e] * n.units + n.printMargins[e] * Inch
        left(length, from, to) == Pixels(length - (most(from) + most(to)), n.units)
    IN /\ \A e \in Edges : most(e) * n.units - Inch < blank(e) /\ blank(e) <= most(e) * n.units
       /\ left(Sheet(n.size)[1], "left", "right") > 0 =>
            n.width > n.printMargins.left + n.printMargins.right
       /\ left(Sheet(n.size)[2], "top", "bottom") > 0 =>
            n.height > n.printMargins.top + n.printMargins.bottom

(* A job is printed with what its client asked for, as far as the printer  *)
(* can, and with nothing else.                                             *)
JobIsAsWanted ==
  /\ PrintedTypeOK
  /\ AlignmentKept /\ FinalSettles /\ JobsAreIndependent
  /\ WishesGranted /\ MarginsHonoured

(* Every page that is begun ends.                                          *)
BegunPageEnds == pc = "setup" ~> pc = "done"
=============================================================================
