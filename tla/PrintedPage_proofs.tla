--------------------------- MODULE PrintedPage_proofs ---------------------------
(***************************************************************************)
(* What a job is printed with, for any printer and any settings, and what  *)
(* comes out of a page of it, for any image.                               *)
(*                                                                         *)
(* The final parameters are written down in closed form, field by field,   *)
(* in terms of the settings and the capabilities; then the settings the    *)
(* service returns are shown to say what their parameters say, so that a   *)
(* second round ends in the same parameters; what the margins, the quality *)
(* and the other wishes come to is read off the closed form. An invariant  *)
(* says at each stage of a job that its parameters are those.              *)
(*                                                                         *)
(* The drawing of a page has an invariant of its own, StripesInv: what the *)
(* decoder, the cache, the window of the scaler and the buffer hold at each*)
(* step of a call, in terms of the rows sent and of the turned image. The  *)
(* lemmas before it are about division and about the numbers that          *)
(* wprint_image_set_output_properties works out; there is one for each     *)
(* action after it; what it says of a page and of its end comes last.      *)
(***************************************************************************)
EXTENDS PrintedPage, TLAPS, WellFoundedInduction

(***************************************************************************)
(* Records, and the conversions, field by field.                           *)
(***************************************************************************)

(* The fields of the parameters in C and in Java, and what it is to be a   *)
(* record of them: a record is known by its fields.                        *)
CFields == {"pcl", "size", "quality", "duplex", "borderless", "flags", "units",
            "jobMargins", "printMargins", "width", "height"}
JFields == {"native", "size", "quality", "duplex", "borderless", "margins", "flags",
            "fit", "fill", "turn", "align"}
IsC(n) == n = [x \in CFields |-> n[x]]
IsJ(n) == n = [x \in JFields |-> n[x]]

(* C parameters with the same fields are the same.                         *)
LEMMA SameC ==
  ASSUME NEW m, NEW n, IsC(m), IsC(n), \A x \in CFields : m[x] = n[x]
  PROVE  m = n
  BY DEF IsC

(* _covertJobParams_to_C, field by field: the bytes kept in Java, under    *)
(* the fields of Java.                                                     *)
LEMMA ToCFields ==
  ASSUME NEW j, IsC(j.native)
  PROVE  /\ IsC(ToC(j))
         /\ ToC(j).pcl = j.native.pcl
         /\ ToC(j).size = j.size
         /\ ToC(j).quality = j.quality
         /\ ToC(j).duplex = j.duplex
         /\ ToC(j).borderless = j.borderless
         /\ ToC(j).flags = JobFlags(j)
         /\ ToC(j).units = j.native.units
         /\ ToC(j).jobMargins = j.margins
         /\ ToC(j).printMargins = j.native.printMargins
         /\ ToC(j).width = j.native.width
         /\ ToC(j).height = j.native.height
  BY DEF ToC, IsC, CFields

(* _covertJobParams_to_Java, field by field.                               *)
LEMMA ToJFields ==
  ASSUME NEW j, NEW n, IsJ(j)
  PROVE  LET k == ToJava(j, n) IN
         /\ IsJ(k)
         /\ k.native = n
         /\ k.size = n.size
         /\ k.quality = n.quality
         /\ k.duplex = n.duplex
         /\ k.borderless = n.borderless
         /\ k.flags = n.flags
         /\ k.margins = n.jobMargins
         /\ k.fit = (FitFlags \subseteq n.flags)
         /\ k.fill = (ScaleFlags \subseteq n.flags)
         /\ k.turn = Orientations \cap n.flags
         /\ k.align = j.align
  <1> DEFINE k == ToJava(j, n)
  <1>1. DOMAIN j = JFields
    BY DEF IsJ
  <1>2. /\ DOMAIN k = JFields /\ k = [x \in JFields |-> k[x]]
        /\ k.native = n /\ k.size = n.size /\ k.quality = n.quality /\ k.duplex = n.duplex
        /\ k.borderless = n.borderless /\ k.flags = n.flags
    BY <1>1 DEF ToJava, JFields
  <1>3. /\ k.margins = n.jobMargins
        /\ k.fit = (FitFlags \subseteq n.flags) /\ k.fill = (ScaleFlags \subseteq n.flags)
        /\ k.turn = Orientations \cap n.flags /\ k.align = j.align
    BY <1>1 DEF ToJava, JFields
  <1> HIDE DEF k
  <1>4. IsJ(k)
    BY <1>2 DEF IsJ
  <1>5. /\ IsJ(k) /\ k.native = n /\ k.size = n.size /\ k.quality = n.quality
        /\ k.duplex = n.duplex /\ k.borderless = n.borderless /\ k.flags = n.flags
        /\ k.margins = n.jobMargins /\ k.fit = (FitFlags \subseteq n.flags)
        /\ k.fill = (ScaleFlags \subseteq n.flags) /\ k.turn = Orientations \cap n.flags
        /\ k.align = j.align
    BY <1>2, <1>3, <1>4
  <1> QED  BY <1>5 DEF k

(* The default parameters.                                                 *)
LEMMA DefaultFields ==
  LET d == DefaultJobParams IN
    /\ IsC(DefaultNative) /\ IsJ(d)
    /\ d.native = DefaultNative /\ d.flags = {}
    /\ d.size = "letter" /\ d.quality = "normal" /\ d.duplex = "none"
    /\ d.borderless = FALSE
  <1>1. /\ IsC(DefaultNative) /\ DefaultNative.size = "letter"
        /\ DefaultNative.quality = "normal" /\ DefaultNative.duplex = "none"
        /\ DefaultNative.borderless = FALSE /\ DefaultNative.flags = {}
    BY DEF DefaultNative, IsC, CFields
  <1> DEFINE j == [native |-> DefaultNative, size |-> "letter", quality |-> "normal",
                   duplex |-> "none", borderless |-> FALSE, margins |-> NoMargins,
                   flags |-> {}, fit |-> FALSE, fill |-> FALSE, turn |-> {}, align |-> {}]
  <1>2. IsJ(j)
    BY DEF IsJ, JFields
  <1>3. DefaultJobParams = ToJava(j, DefaultNative)
    BY DEF DefaultJobParams
  <1> HIDE DEF j
  <1> QED  BY <1>1, <1>2, <1>3, ToJFields

(* A copy of the defaults with the settings of a client in it              *)
(* (updateJobParams).                                                      *)
LEMMA UpdatedFields ==
  ASSUME NEW s
  PROVE  LET j == UpdateJobParams(Copy(DefaultJobParams), s) IN
         /\ IsJ(j)
         /\ j.native = DefaultNative /\ j.flags = {}
         /\ j.borderless = IF "fullBleed" \in DOMAIN s THEN s.fullBleed = "on" ELSE FALSE
         /\ j.duplex = Given(s, "sides", "none")
         /\ j.quality = Given(s, "quality", "normal")
         /\ j.fit = Given(s, "fit", FALSE)
         /\ j.fill = Given(s, "fill", FALSE)
         /\ j.size = Given(s, "size", "letter")
         /\ j.turn = Turn(s)
         /\ j.margins = Given(s, "margins", NoMargins)
         /\ j.align = Alignment(s)
  <1> DEFINE d == Copy(DefaultJobParams)
  <1>1. /\ IsJ(d) /\ d.native = DefaultNative /\ d.flags = {}
        /\ d.size = "letter" /\ d.quality = "normal" /\ d.duplex = "none"
        /\ d.borderless = FALSE /\ d.fit = FALSE /\ d.fill = FALSE
    BY DefaultFields DEF Copy, IsJ, JFields
  <1> DEFINE j == UpdateJobParams(d, s)
  <1> HIDE DEF d
  <1>2. IsJ(j) /\ j.native = d.native /\ j.flags = d.flags
    BY <1>1 DEF UpdateJobParams, IsJ, JFields
  <1>3. /\ j.duplex = Given(s, "sides", d.duplex)
        /\ j.quality = Given(s, "quality", d.quality)
        /\ j.fit = Given(s, "fit", d.fit)
        /\ j.fill = Given(s, "fill", d.fill)
        /\ j.size = Given(s, "size", d.size)
    BY <1>1 DEF UpdateJobParams, IsJ, JFields
  <1>4. /\ j.turn = Turn(s)
        /\ j.margins = Given(s, "margins", NoMargins)
        /\ j.align = Alignment(s)
    BY <1>1 DEF UpdateJobParams, IsJ, JFields
  <1>5. j.borderless = IF "fullBleed" \in DOMAIN s THEN s.fullBleed = "on" ELSE d.borderless
    BY <1>1 DEF UpdateJobParams, IsJ, JFields
  <1> HIDE DEF j
  <1>6. j = UpdateJobParams(Copy(DefaultJobParams), s)
    BY DEF j, d
  <1>7. /\ j.duplex = Given(s, "sides", "none")
        /\ j.quality = Given(s, "quality", "normal")
        /\ j.fit = Given(s, "fit", FALSE)
        /\ j.fill = Given(s, "fill", FALSE)
        /\ j.size = Given(s, "size", "letter")
    BY <1>1, <1>3
  <1> QED  BY <1>1, <1>2, <1>4, <1>5, <1>6, <1>7

(* wprintGetFinalJobParams, field by field, for any parameters.            *)
LEMMA FinalFields ==
  ASSUME NEW n, NEW caps, IsC(n)
  PROVE  LET k == GetFinal(n, caps)
             own == DefaultMargins(k, caps)
             sheet == Sheet(k.size) IN
         /\ IsC(k)
         /\ k.pcl = PclType(n, caps)
         /\ k.size = Size(n.size, caps)
         /\ k.quality = Quality(n.quality, caps)
         /\ k.duplex = Duplex(n, caps)
         /\ k.borderless = Borderless(n, caps)
         /\ k.flags = FinalFlags(n, caps)
         /\ k.units = Units(k.quality, caps)
         /\ k.jobMargins = n.jobMargins
         /\ k.printMargins =
              [e \in Edges |->
                 IF ~ k.borderless /\ k.jobMargins[e] > own[e]
                 THEN Pixels(k.jobMargins[e] - own[e], k.units) ELSE n.printMargins[e]]
         /\ k.width  = Pixels(sheet[1] - (own.left + own.right), k.units)
         /\ k.height = Pixels(sheet[2] - (own.top + own.bottom), k.units)
  <1> DEFINE quality == Quality(n.quality, caps)
             f == [n EXCEPT !.pcl = PclType(n, caps),
                           !.quality = quality,
                           !.size = Size(n.size, caps),
                           !.borderless = Borderless(n, caps),
                           !.duplex = Duplex(n, caps),
                           !.flags = FinalFlags(n, caps),
                           !.units = Units(quality, caps)]
  <1>1. /\ IsC(f) /\ f.pcl = PclType(n, caps) /\ f.size = Size(n.size, caps)
        /\ f.quality = Quality(n.quality, caps) /\ f.duplex = Duplex(n, caps)
        /\ f.borderless = Borderless(n, caps) /\ f.flags = FinalFlags(n, caps)
        /\ f.units = Units(f.quality, caps)
        /\ f.jobMargins = n.jobMargins /\ f.printMargins = n.printMargins
    BY DEF IsC, CFields
  <1>2. GetFinal(n, caps) = PrintableArea(f, DefaultMargins(f, caps))
    BY DEF GetFinal
  <1> HIDE DEF f
  <1> DEFINE k == PrintableArea(f, DefaultMargins(f, caps))
             own == DefaultMargins(f, caps)
  <1>3. /\ IsC(k) /\ k.pcl = f.pcl /\ k.size = f.size /\ k.quality = f.quality
        /\ k.duplex = f.duplex /\ k.borderless = f.borderless /\ k.flags = f.flags
        /\ k.units = f.units /\ k.jobMargins = f.jobMargins
    BY <1>1 DEF PrintableArea, IsC, CFields
  <1>4. /\ k.printMargins =
              [e \in Edges |->
                 IF ~ f.borderless /\ f.jobMargins[e] > own[e]
                 THEN Pixels(f.jobMargins[e] - own[e], f.units) ELSE f.printMargins[e]]
        /\ k.width  = Pixels(Sheet(f.size)[1] - (own.left + own.right), f.units)
        /\ k.height = Pixels(Sheet(f.size)[2] - (own.top + own.bottom), f.units)
    BY <1>1 DEF PrintableArea, IsC, CFields
  <1>5. DefaultMargins(k, caps) = own
    BY <1>3 DEF DefaultMargins
  <1> HIDE DEF k, own
  <1>6. GetFinal(n, caps) = k
    BY <1>2 DEF k
  <1> QED  BY <1>1, <1>3, <1>4, <1>5, <1>6

(***************************************************************************)
(* The final parameters of the settings of a client.                       *)
(***************************************************************************)

(* In terms of the settings alone: is the page printed without margins, on *)
(* which sides, and which flags are set on the way: for the orientation, for*)
(* the scale, by the JNI layer before and by the library in the final      *)
(* parameters, and by the JNI layer again when the job starts.             *)
Bleeds(s, caps) ==
  Given(s, "fullBleed", "off") = "on" /\ caps.borderless
    /\ Given(s, "margins", NoMargins) = NoMargins

SidesOf(s, caps) ==
  IF ~ caps.duplex \/ Bleeds(s, caps) THEN "none" ELSE Given(s, "sides", "none")

TurnFlags(turn) ==
  IF "portrait" \in turn THEN {"portrait"}
  ELSE IF "landscape" \in turn THEN {"landscape"} ELSE turn

ScaleOf(fill, fit) == IF fill THEN ScaleFlags ELSE IF fit THEN FitFlags ELSE {}

AskedFlags(s) ==
  Aligned(TurnFlags(Turn(s))
            \cup ScaleOf(Given(s, "fill", FALSE), Given(s, "fit", FALSE)), Alignment(s))

AddedFlags(flags, sides, caps) ==
  flags \cup (IF sides = "book" /\ ~ caps.rotatesBack THEN {"rotateBack"} ELSE {})
        \cup (IF "autoScale" \in flags THEN ScaleFlags
              ELSE IF "autoFit" \in flags THEN FitFlags ELSE {})

StartFlags(flags, align) ==
  Aligned(flags \cup TurnFlags(Orientations \cap flags)
                \cup ScaleOf(ScaleFlags \subseteq flags, FitFlags \subseteq flags), align)

(* What the library gets for the settings of a client.                     *)
LEMMA AskedFields ==
  ASSUME NEW s
  PROVE  LET n == ToC(UpdateJobParams(Copy(DefaultJobParams), s)) IN
         /\ IsC(n) /\ n.pcl = "PCLm"
         /\ n.size = Given(s, "size", "letter")
         /\ n.quality = Given(s, "quality", "normal")
         /\ n.duplex = Given(s, "sides", "none")
         /\ n.borderless = (Given(s, "fullBleed", "off") = "on")
         /\ n.flags = AskedFlags(s)
         /\ n.jobMargins = Given(s, "margins", NoMargins)
         /\ n.printMargins = NoMargins
  <1> DEFINE j == UpdateJobParams(Copy(DefaultJobParams), s)
  <1>1. /\ IsJ(j) /\ j.native = DefaultNative /\ j.flags = {}
        /\ j.borderless = IF "fullBleed" \in DOMAIN s THEN s.fullBleed = "on" ELSE FALSE
        /\ j.duplex = Given(s, "sides", "none")
        /\ j.quality = Given(s, "quality", "normal")
        /\ j.fit = Given(s, "fit", FALSE)
        /\ j.fill = Given(s, "fill", FALSE)
        /\ j.size = Given(s, "size", "letter")
        /\ j.turn = Turn(s)
        /\ j.margins = Given(s, "margins", NoMargins)
        /\ j.align = Alignment(s)
    BY UpdatedFields
  <1> HIDE DEF j
  <1>2. /\ IsC(j.native) /\ j.native.pcl = "PCLm" /\ j.native.printMargins = NoMargins
    BY <1>1, DefaultFields DEF DefaultNative
  <1>3. JobFlags(j) = AskedFlags(s)
    <2>1. JobFlags(j) = Aligned({} \cup TurnFlags(Turn(s))
                                \cup ScaleOf(Given(s, "fill", FALSE), Given(s, "fit", FALSE)),
                              Alignment(s))
      BY <1>1 DEF JobFlags, TurnFlags, ScaleOf
    <2>2. {} \cup TurnFlags(Turn(s)) = TurnFlags(Turn(s))
      OBVIOUS
    <2> QED  BY <2>1, <2>2 DEF AskedFlags
  <1>4. j.borderless = (Given(s, "fullBleed", "off") = "on")
    BY <1>1 DEF Given
  <1> DEFINE n == ToC(j)
  <1>5. /\ IsC(n) /\ n.pcl = j.native.pcl /\ n.size = j.size /\ n.quality = j.quality
        /\ n.duplex = j.duplex /\ n.borderless = j.borderless /\ n.flags = JobFlags(j)
        /\ n.jobMargins = j.margins /\ n.printMargins = j.native.printMargins
    BY <1>2, ToCFields
  <1> HIDE DEF n
  <1>6. n = ToC(UpdateJobParams(Copy(DefaultJobParams), s))
    BY DEF n, j
  <1>7. /\ IsC(n) /\ n.pcl = "PCLm"
         /\ n.size = Given(s, "size", "letter")
         /\ n.quality = Given(s, "quality", "normal")
         /\ n.duplex = Given(s, "sides", "none")
         /\ n.borderless = (Given(s, "fullBleed", "off") = "on")
         /\ n.flags = AskedFlags(s)
         /\ n.jobMargins = Given(s, "margins", NoMargins)
         /\ n.printMargins = NoMargins
    BY <1>1, <1>2, <1>3, <1>4, <1>5
  <1> QED  BY <1>6, <1>7

(* And what it makes of it.                                                *)
LEMMA FinalNative ==
  ASSUME NEW s, NEW caps
  PROVE  LET n == GetFinal(ToC(UpdateJobParams(Copy(DefaultJobParams), s)), caps)
             own == DefaultMargins(n, caps)
             sheet == Sheet(n.size) IN
         /\ IsC(n)
         /\ n.pcl = IF caps.pclm \/ caps.pdf THEN "PCLm"
                    ELSE IF caps.pwg THEN "PWG" ELSE "PCLm"
         /\ n.size = Size(Given(s, "size", "letter"), caps)
         /\ n.quality = Quality(Given(s, "quality", "normal"), caps)
         /\ n.duplex = SidesOf(s, caps)
         /\ n.borderless = Bleeds(s, caps)
         /\ n.flags = AddedFlags(AskedFlags(s), SidesOf(s, caps), caps)
         /\ n.units = Units(n.quality, caps)
         /\ n.jobMargins = Given(s, "margins", NoMargins)
         /\ n.printMargins =
              [e \in Edges |->
                 IF ~ n.borderless /\ n.jobMargins[e] > own[e]
                 THEN Pixels(n.jobMargins[e] - own[e], n.units) ELSE 0]
         /\ n.width  = Pixels(sheet[1] - (own.left + own.right), n.units)
         /\ n.height = Pixels(sheet[2] - (own.top + own.bottom), n.units)
  <1> DEFINE u == ToC(UpdateJobParams(Copy(DefaultJobParams), s))
             n == GetFinal(u, caps)
             own == DefaultMargins(n, caps)
             sheet == Sheet(n.size)
  <1>1. /\ IsC(u) /\ u.pcl = "PCLm"
         /\ u.size = Given(s, "size", "letter")
         /\ u.quality = Given(s, "quality", "normal")
         /\ u.duplex = Given(s, "sides", "none")
         /\ u.borderless = (Given(s, "fullBleed", "off") = "on")
         /\ u.flags = AskedFlags(s)
         /\ u.jobMargins = Given(s, "margins", NoMargins)
         /\ u.printMargins = NoMargins
    BY AskedFields
  <1> HIDE DEF u
  <1>2.  /\ IsC(n)
         /\ n.pcl = PclType(u, caps)
         /\ n.size = Size(u.size, caps)
         /\ n.quality = Quality(u.quality, caps)
         /\ n.duplex = Duplex(u, caps)
         /\ n.borderless = Borderless(u, caps)
         /\ n.flags = FinalFlags(u, caps)
         /\ n.units = Units(n.quality, caps)
         /\ n.jobMargins = u.jobMargins
         /\ n.printMargins =
              [e \in Edges |->
                 IF ~ n.borderless /\ n.jobMargins[e] > own[e]
                 THEN Pixels(n.jobMargins[e] - own[e], n.units) ELSE u.printMargins[e]]
         /\ n.width  = Pixels(sheet[1] - (own.left + own.right), n.units)
         /\ n.height = Pixels(sheet[2] - (own.top + own.bottom), n.units)
    BY <1>1, FinalFields
  <1>3. Borderless(u, caps) = Bleeds(s, caps)
    BY <1>1 DEF Borderless, Bleeds
  <1>4. Duplex(u, caps) = SidesOf(s, caps)
    BY <1>1, <1>3 DEF Duplex, SidesOf
  <1>5. FinalFlags(u, caps) = AddedFlags(AskedFlags(s), SidesOf(s, caps), caps)
    BY <1>1, <1>4 DEF FinalFlags, AddedFlags
  <1>6. PclType(u, caps)
          = IF caps.pclm \/ caps.pdf THEN "PCLm" ELSE IF caps.pwg THEN "PWG" ELSE "PCLm"
    BY <1>1 DEF PclType
  <1> HIDE DEF n
  <1>7. n.printMargins =
              [e \in Edges |->
                 IF ~ n.borderless /\ n.jobMargins[e] > own[e]
                 THEN Pixels(n.jobMargins[e] - own[e], n.units) ELSE 0]
    <2>1. \A e \in Edges : u.printMargins[e] = 0
      BY <1>1 DEF NoMargins
    <2> HIDE DEF own
    <2> QED  BY <1>2, <2>1
  <1> HIDE DEF own, sheet
  <1>8.  /\ IsC(n)
         /\ n.pcl = IF caps.pclm \/ caps.pdf THEN "PCLm"
                    ELSE IF caps.pwg THEN "PWG" ELSE "PCLm"
         /\ n.size = Size(Given(s, "size", "letter"), caps)
         /\ n.quality = Quality(Given(s, "quality", "normal"), caps)
         /\ n.duplex = SidesOf(s, caps)
         /\ n.borderless = Bleeds(s, caps)
         /\ n.flags = AddedFlags(AskedFlags(s), SidesOf(s, caps), caps)
         /\ n.units = Units(n.quality, caps)
         /\ n.jobMargins = Given(s, "margins", NoMargins)
    BY <1>1, <1>2, <1>3, <1>4, <1>5, <1>6
  <1> QED  BY <1>2, <1>7, <1>8 DEF n, own, sheet, u

(* The flags for the alignment and for a back side that is turned.         *)
CentreOf(align) ==
  IF align = {} THEN {}
  ELSE IF "center" \in align THEN {"centerV", "centerH"} ELSE align \cap CentreFlags

BackOf(sides, caps) ==
  IF sides = "book" /\ ~ caps.rotatesBack THEN {"rotateBack"} ELSE {}

Fills(s) == Given(s, "fill", FALSE)
Fits(s) == Given(s, "fit", FALSE)

(* An orientation is one flag, which the JNI layer leaves alone.           *)
LEMMA TurnIs ==
  ASSUME NEW s
  PROVE  /\ Turn(s) \in {{"portrait"}, {"landscape"}, {"autoRotate"}}
         /\ TurnFlags(Turn(s)) = Turn(s)
  BY DEF Turn, TurnFlags

(* All flags of the final parameters: what the library adds for the scale is*)
(* there already, and no alignment takes it away.                          *)
LEMMA FullFlags ==
  ASSUME NEW s, NEW sides, NEW caps, Fills(s) \in BOOLEAN, Fits(s) \in BOOLEAN
  PROVE  AddedFlags(AskedFlags(s), sides, caps)
           = Turn(s) \cup ScaleOf(Fills(s), Fits(s)) \cup CentreOf(Alignment(s))
               \cup BackOf(sides, caps)
  <1> DEFINE T == Turn(s)
             S == ScaleOf(Fills(s), Fits(s))
             A == Alignment(s)
             C == CentreOf(A)
             B == BackOf(sides, caps)
             f == AskedFlags(s)
             more == IF "autoScale" \in f THEN ScaleFlags
                     ELSE IF "autoFit" \in f THEN FitFlags ELSE {}
  <1>1. T \in {{"portrait"}, {"landscape"}, {"autoRotate"}} /\ TurnFlags(T) = T
    BY TurnIs
  <1>2. AddedFlags(f, sides, caps) = f \cup B \cup more
    BY DEF AddedFlags, BackOf
  <1>3. f = Aligned(T \cup S, A)
    BY <1>1 DEF AskedFlags, Fills, Fits
  <1>4. S = IF Fills(s) THEN ScaleFlags ELSE IF Fits(s) THEN FitFlags ELSE {}
    BY DEF ScaleOf
  <1>5. CASE A = {}
    <2>1. f = T \cup S /\ C = {}
      BY <1>3, <1>5 DEF Aligned, CentreOf
    <2>2. more = S
      BY <1>1, <1>4, <2>1 DEF ScaleFlags, FitFlags
    <2> HIDE DEF f, more, S, T, A, C, B
    <2> QED  BY <1>2, <2>1, <2>2 DEF f, S, T, A, C, B
  <1>6. CASE A # {}
    <2>1. f = ((T \cup S) \ CentreFlags) \cup C
      BY <1>3, <1>6 DEF Aligned, CentreOf
    <2>2. C \subseteq CentreFlags
      BY DEF CentreOf, CentreFlags
    <2>3. T \cap CentreFlags = {}
      BY <1>1 DEF CentreFlags
    <2>4. "autoScale" \notin CentreFlags /\ "autoFit" \notin CentreFlags
      BY DEF CentreFlags
    <2> HIDE DEF C
    <2>5. /\ "autoScale" \in f <=> "autoScale" \in S
          /\ "autoFit" \in f <=> "autoFit" \in S
      BY <1>1, <2>1, <2>2, <2>4
    <2>6. more = S
      BY <1>4, <2>5 DEF ScaleFlags, FitFlags
    <2> HIDE DEF f, more, S, T, A, B
    <2>7. f \cup B \cup S = T \cup S \cup C \cup B
      BY <2>1, <2>3
    <2> QED  BY <1>2, <2>6, <2>7 DEF f, S, T, A, C, B
  <1> QED  BY <1>5, <1>6

(* The second conversion to C adds nothing: what the flags say of orientation*)
(* and scale has been read from the flags.                                 *)
LEMMA StartFlagsIs ==
  ASSUME NEW f, NEW align
  PROVE  StartFlags(f, align) = Aligned(f, align)
  <1> DEFINE T == TurnFlags(Orientations \cap f)
             S == ScaleOf(ScaleFlags \subseteq f, FitFlags \subseteq f)
  <1>1. T \subseteq f
    BY DEF TurnFlags, Orientations
  <1>2. S \subseteq f
    <2>1. S = IF ScaleFlags \subseteq f THEN ScaleFlags
              ELSE IF FitFlags \subseteq f THEN FitFlags ELSE {}
      BY DEF ScaleOf
    <2> QED  BY <2>1
  <1> HIDE DEF T, S
  <1>3. f \cup T \cup S = f
    BY <1>1, <1>2
  <1>4. StartFlags(f, align) = Aligned(f \cup T \cup S, align)
    BY DEF StartFlags, T, S
  <1> QED  BY <1>3, <1>4

(* What Java reads from the flags of the final parameters.                 *)
LEMMA FlagsTold ==
  ASSUME NEW s, NEW B \in {{}, {"rotateBack"}}, Fills(s) \in BOOLEAN, Fits(s) \in BOOLEAN,
         NEW f,
         f = Turn(s) \cup ScaleOf(Fills(s), Fits(s)) \cup CentreOf(Alignment(s)) \cup B
  PROVE  /\ ScaleFlags \subseteq f <=> Fills(s)
         /\ FitFlags \subseteq f <=> ~ Fills(s) /\ Fits(s)
         /\ "autoRotate" \in f <=> Turn(s) = {"autoRotate"} \/ Fills(s) \/ Fits(s)
         /\ "landscape" \in f <=> Turn(s) = {"landscape"}
  <1>1. Turn(s) \in {{"portrait"}, {"landscape"}, {"autoRotate"}}
    BY TurnIs
  <1>2. CentreOf(Alignment(s)) \subseteq CentreFlags
    BY DEF CentreOf, CentreFlags
  <1> DEFINE C == CentreOf(Alignment(s))
             T == Turn(s)
             S == ScaleOf(Fills(s), Fits(s))
  <1>3. S = IF Fills(s) THEN ScaleFlags ELSE IF Fits(s) THEN FitFlags ELSE {}
    BY DEF ScaleOf
  <1> HIDE DEF C, T, S
  <1>4. /\ "autoScale" \in f <=> "autoScale" \in S
        /\ "autoFit" \in f <=> "autoFit" \in S
        /\ "autoRotate" \in f <=> "autoRotate" \in S \/ "autoRotate" \in T
        /\ "landscape" \in f <=> "landscape" \in S \/ "landscape" \in T
    BY <1>1, <1>2 DEF C, T, S, CentreFlags
  <1>5. S \subseteq f
    BY DEF S
  <1>6. /\ "autoScale" \in S <=> Fills(s)
        /\ "autoFit" \in S <=> ~ Fills(s) /\ Fits(s)
        /\ "autoRotate" \in S <=> Fills(s) \/ Fits(s)
        /\ "landscape" \notin S
    BY <1>3 DEF ScaleFlags, FitFlags
  <1>7. /\ "autoRotate" \in T <=> T = {"autoRotate"}
        /\ "landscape" \in T <=> T = {"landscape"}
    BY <1>1 DEF T
  <1>8. ScaleFlags \subseteq f <=> Fills(s)
    <2>1. "autoScale" \in ScaleFlags
      BY DEF ScaleFlags
    <2> QED  BY <1>3, <1>4, <1>5, <1>6, <2>1
  <1>9. FitFlags \subseteq f <=> ~ Fills(s) /\ Fits(s)
    <2>1. "autoFit" \in FitFlags
      BY DEF FitFlags
    <2> QED  BY <1>3, <1>4, <1>5, <1>6, <2>1
  <1> QED  BY <1>4, <1>6, <1>7, <1>8, <1>9 DEF T

(* The final parameters, their format and flags, and all their fields but  *)
(* the flags, in closed form.                                              *)
Final(s, caps) == FinalParams(DefaultJobParams, s, caps)

PclOf(caps) ==
  IF caps.pclm \/ caps.pdf THEN "PCLm" ELSE IF caps.pwg THEN "PWG" ELSE "PCLm"

FlagsOf(s, caps) ==
  Turn(s) \cup ScaleOf(Fills(s), Fits(s)) \cup CentreOf(Alignment(s))
    \cup BackOf(SidesOf(s, caps), caps)

IsFinal(n, s, caps) ==
  LET own   == DefaultMargins(n, caps)
      sheet == Sheet(n.size)
  IN /\ IsC(n)
     /\ n.pcl = PclOf(caps)
     /\ n.size = Size(Given(s, "size", "letter"), caps)
     /\ n.quality = Quality(Given(s, "quality", "normal"), caps)
     /\ n.duplex = SidesOf(s, caps)
     /\ n.borderless = Bleeds(s, caps)
     /\ n.units = Units(n.quality, caps)
     /\ n.jobMargins = Given(s, "margins", NoMargins)
     /\ n.printMargins =
          [e \in Edges |->
             IF ~ n.borderless /\ n.jobMargins[e] > own[e]
             THEN Pixels(n.jobMargins[e] - own[e], n.units) ELSE 0]
     /\ n.width  = Pixels(sheet[1] - (own.left + own.right), n.units)
     /\ n.height = Pixels(sheet[2] - (own.top + own.bottom), n.units)

(* What Java keeps of the final parameters.                                *)
LEMMA FinalJava ==
  ASSUME NEW s, NEW caps, Fills(s) \in BOOLEAN, Fits(s) \in BOOLEAN
  PROVE  LET j == Final(s, caps)
             n == j.native IN
         /\ IsFinal(n, s, caps) /\ n.flags = FlagsOf(s, caps)
         /\ j.size = n.size /\ j.quality = n.quality /\ j.duplex = n.duplex
         /\ j.borderless = n.borderless /\ j.margins = n.jobMargins /\ j.flags = n.flags
         /\ j.fit = (FitFlags \subseteq n.flags) /\ j.fill = (ScaleFlags \subseteq n.flags)
         /\ j.turn = Orientations \cap n.flags
         /\ j.align = Alignment(s)
  <1> DEFINE u == UpdateJobParams(Copy(DefaultJobParams), s)
             n == GetFinal(ToC(u), caps)
  <1>1. Final(s, caps) = ToJava(u, n)
    BY DEF Final, FinalParams
  <1>2. IsJ(u) /\ u.align = Alignment(s)
    BY UpdatedFields
  <1>3. IsFinal(n, s, caps)
    BY FinalNative DEF IsFinal, PclOf
  <1>4. n.flags = FlagsOf(s, caps)
    <2>1. n.flags = AddedFlags(AskedFlags(s), SidesOf(s, caps), caps)
      BY FinalNative
    <2> HIDE DEF n
    <2> QED  BY <2>1, FullFlags DEF FlagsOf
  <1> HIDE DEF u, n
  <1> QED  BY <1>1, <1>2, <1>3, <1>4, ToJFields

(* What StartJob converts to C again is the same, but for the flags that the*)
(* alignment takes away.                                                   *)
LEMMA StartedFields ==
  ASSUME NEW s, NEW caps, Fills(s) \in BOOLEAN, Fits(s) \in BOOLEAN
  PROVE  LET n == Final(s, caps).native
             m == ToC(Final(s, caps)) IN
         /\ IsC(m) /\ IsFinal(n, s, caps)
         /\ m.pcl = n.pcl /\ m.size = n.size /\ m.quality = n.quality
         /\ m.duplex = n.duplex /\ m.borderless = n.borderless
         /\ m.units = n.units /\ m.jobMargins = n.jobMargins
         /\ m.printMargins = n.printMargins /\ m.width = n.width /\ m.height = n.height
         /\ m.flags = Aligned(FlagsOf(s, caps), Alignment(s))
  <1> DEFINE j == Final(s, caps)
             n == j.native
  <1>1.  /\ IsFinal(n, s, caps) /\ n.flags = FlagsOf(s, caps)
         /\ j.size = n.size /\ j.quality = n.quality /\ j.duplex = n.duplex
         /\ j.borderless = n.borderless /\ j.margins = n.jobMargins /\ j.flags = n.flags
         /\ j.fit = (FitFlags \subseteq n.flags) /\ j.fill = (ScaleFlags \subseteq n.flags)
         /\ j.turn = Orientations \cap n.flags
         /\ j.align = Alignment(s)
    BY FinalJava
  <1>2. IsC(n)
    BY <1>1 DEF IsFinal
  <1> HIDE DEF j
  <1>3. JobFlags(j) = StartFlags(n.flags, Alignment(s))
    BY <1>1 DEF JobFlags, StartFlags, TurnFlags, ScaleOf
  <1>4. JobFlags(j) = Aligned(FlagsOf(s, caps), Alignment(s))
    BY <1>1, <1>3, StartFlagsIs
  <1> QED  BY <1>1, <1>2, <1>4, ToCFields DEF j

(***************************************************************************)
(* A client that takes over what was returned to it.                       *)
(***************************************************************************)

(* The settings a client has after it took over what was returned to it.   *)
Second(s, caps) == Merged(GetJobParams(Final(s, caps)), s)

(* The settings t say what the parameters j say, and what the settings s say*)
(* where the service returns nothing.                                      *)
Says(t, s, j) ==
  /\ Given(t, "sides", "none") = j.duplex
  /\ Given(t, "quality", "normal") = j.quality
  /\ Fits(t) = j.fit /\ Fills(t) = j.fill
  /\ Given(t, "size", "letter") = j.size
  /\ Given(t, "fullBleed", "off") = IF j.borderless THEN "on" ELSE "off"
  /\ Turn(t) = IF "autoRotate" \in j.turn THEN {"autoRotate"}
               ELSE IF "landscape" \in j.turn THEN {"landscape"} ELSE {"portrait"}
  /\ Given(t, "margins", NoMargins) = Given(s, "margins", NoMargins)
  /\ Alignment(t) = Alignment(s)

(* So do the settings a client takes over.                                 *)
LEMMA SecondSays ==
  ASSUME NEW s, NEW caps
  PROVE  Says(Second(s, caps), s, Final(s, caps))
  <1> DEFINE j == Final(s, caps)
             g == GetJobParams(j)
             t == Merged(g, s)
             keys == {"sides", "quality", "fit", "fill", "size", "fullBleed", "orientation"}
  <1>1. /\ DOMAIN g = keys
        /\ g.sides = j.duplex /\ g.quality = j.quality /\ g.fit = j.fit /\ g.fill = j.fill
        /\ g.size = j.size /\ g.fullBleed = IF j.borderless THEN "on" ELSE "off"
        /\ g.orientation = IF "autoRotate" \in j.turn THEN "auto"
                           ELSE IF "landscape" \in j.turn THEN "landscape" ELSE "portrait"
    BY DEF GetJobParams
  <1> HIDE DEF g, j
  <1>2. t = [x \in (DOMAIN g) \cup (DOMAIN s) |-> IF x \in DOMAIN g THEN g[x] ELSE s[x]]
    BY DEF Merged
  <1>3. /\ \A x : x \in keys => x \in DOMAIN t /\ t[x] = g[x]
        /\ \A x : x \notin keys => (x \in DOMAIN t <=> x \in DOMAIN s)
                                   /\ (x \in DOMAIN s => t[x] = s[x])
    BY <1>1, <1>2
  <1> HIDE DEF t
  <1>4. /\ "margins" \notin keys /\ "category" \notin keys /\ "alignment" \notin keys
        /\ "sides" \in keys /\ "quality" \in keys /\ "fit" \in keys /\ "fill" \in keys
        /\ "size" \in keys /\ "fullBleed" \in keys /\ "orientation" \in keys
    OBVIOUS
  <1> HIDE DEF keys
  <1>5. /\ \A o : /\ Given(t, "sides", o) = g.sides
                   /\ Given(t, "quality", o) = g.quality
                   /\ Given(t, "fit", o) = g.fit
                   /\ Given(t, "fill", o) = g.fill
                   /\ Given(t, "size", o) = g.size
                   /\ Given(t, "fullBleed", o) = g.fullBleed
                   /\ Given(t, "orientation", o) = g.orientation
        /\ "fullBleed" \in DOMAIN t
    BY <1>3, <1>4 DEF Given
  <1>6. \A o : /\ Given(t, "margins", o) = Given(s, "margins", o)
               /\ Given(t, "category", o) = Given(s, "category", o)
    BY <1>3, <1>4 DEF Given
  <1>7. Alignment(t) = Alignment(s)
    BY <1>3, <1>4, <1>6 DEF Alignment
  <1>8. Turn(t) = IF "autoRotate" \in j.turn THEN {"autoRotate"}
                  ELSE IF "landscape" \in j.turn THEN {"landscape"} ELSE {"portrait"}
    BY <1>1, <1>5 DEF Turn
  <1>9. Says(t, s, j)
    BY <1>1, <1>5, <1>6, <1>7, <1>8 DEF Says, Fits, Fills
  <1> QED  BY <1>9 DEF t, g, j, Second

(* The nearest quality the printer has is a quality; it is the one asked for*)
(* where the printer has that; and its nearest quality is itself.          *)
LEMMA QualityAgain ==
  ASSUME NEW q \in {"fast", "normal", "best"}, NEW caps
  PROVE  /\ Quality(q, caps) \in {"fast", "normal", "best"}
         /\ Quality(Quality(q, caps), caps) = Quality(q, caps)
         /\ q \in caps.qualities => Quality(q, caps) = q
  <1> DEFINE Q == caps.qualities
  <1>1. ASSUME NEW a, NEW b, NEW d, NEW order, order = <<a, b, d>>
        PROVE  LET has == {i \in DOMAIN order : order[i] \in Q}
                   r == IF has = {} THEN "normal"
                        ELSE order[CHOOSE i \in has : \A k \in has : i <= k]
               IN r = IF a \in Q THEN a ELSE IF b \in Q THEN b ELSE IF d \in Q THEN d
                      ELSE "normal"
    <2> DEFINE has == {i \in DOMAIN order : order[i] \in Q}
               i == CHOOSE i \in has : \A k \in has : i <= k
    <2>1. /\ DOMAIN order = {1, 2, 3}
          /\ order[1] = a /\ order[2] = b /\ order[3] = d
      BY <1>1
    <2>2. /\ has \subseteq {1, 2, 3}
          /\ 1 \in has <=> a \in Q
          /\ 2 \in has <=> b \in Q
          /\ 3 \in has <=> d \in Q
      BY <2>1
    <2> HIDE DEF has
    <2>0. \A k \in has :
            k \in Int /\ 1 <= k /\ (k = 1 \/ 2 <= k) /\ (k = 1 \/ k = 2 \/ 3 <= k)
      BY <2>2
    <2>3. has # {} => \E l \in has : \A k \in has : l <= k
      <3>1. CASE 1 \in has
        BY <2>0, <3>1
      <3>2. CASE 1 \notin has /\ 2 \in has
        BY <2>0, <3>2
      <3>3. CASE 1 \notin has /\ 2 \notin has
        <4>1. has # {} => has = {3}
          BY <2>2, <3>3
        <4> QED  BY <4>1
      <3> QED  BY <3>1, <3>2, <3>3
    <2>4. has # {} => i \in has /\ \A k \in has : i <= k
      BY <2>3
    <2> HIDE DEF i
    <2>5. /\ 1 \in has => i = 1
          /\ 1 \notin has /\ 2 \in has => i = 2
          /\ 1 \notin has /\ 2 \notin has /\ 3 \in has => i = 3
      <3>1. has # {} => i = 1 \/ i = 2 \/ i = 3
        BY <2>2, <2>4
      <3> QED  BY <2>4, <3>1
    <2>6. has = {} <=> 1 \notin has /\ 2 \notin has /\ 3 \notin has
      BY <2>2
    <2> QED  BY <2>1, <2>2, <2>5, <2>6 DEF has, i
  <1> DEFINE R(a, b, d) == IF a \in Q THEN a ELSE IF b \in Q THEN b ELSE IF d \in Q THEN d
                           ELSE "normal"
  <1>2. /\ Quality("fast", caps) = R("fast", "normal", "best")
        /\ Quality("normal", caps) = R("normal", "fast", "best")
        /\ Quality("best", caps) = R("best", "normal", "fast")
    <2>1. Quality("fast", caps) = R("fast", "normal", "best")
      BY <1>1 DEF Quality
    <2>2. Quality("normal", caps) = R("normal", "fast", "best")
      BY <1>1 DEF Quality
    <2>3. Quality("best", caps) = R("best", "normal", "fast")
      BY <1>1 DEF Quality
    <2> QED  BY <2>1, <2>2, <2>3
  <1> QED  BY <1>2

(* What the theorem assumes of the settings of a client.                   *)
Sensible(s) ==
  /\ Given(s, "margins", NoMargins) \in [Edges -> Nat]
  /\ Given(s, "quality", "normal") \in {"fast", "normal", "best"}
  /\ Fits(s) \in BOOLEAN /\ Fills(s) \in BOOLEAN

(* The final parameters of settings that were taken over are those of the  *)
(* settings they were made of: the round trip changes nothing but the flags.*)
LEMMA FinalAgain ==
  ASSUME NEW s, NEW caps, Sensible(s)
  PROVE  LET t == Second(s, caps) IN
         /\ Sensible(t) /\ Alignment(t) = Alignment(s)
         /\ \A n : IsFinal(n, t, caps) => IsFinal(n, s, caps)
  <1> DEFINE t == Second(s, caps)
             j == Final(s, caps)
             n == j.native
  <1>1. Fits(s) \in BOOLEAN /\ Fills(s) \in BOOLEAN
    BY DEF Sensible
  <1>2.  /\ IsFinal(n, s, caps)
         /\ j.size = n.size /\ j.quality = n.quality /\ j.duplex = n.duplex
         /\ j.borderless = n.borderless
         /\ j.fit = (FitFlags \subseteq n.flags) /\ j.fill = (ScaleFlags \subseteq n.flags)
    BY <1>1, FinalJava
  <1>3. /\ n.size = Size(Given(s, "size", "letter"), caps)
        /\ n.quality = Quality(Given(s, "quality", "normal"), caps)
        /\ n.duplex = SidesOf(s, caps)
        /\ n.borderless = Bleeds(s, caps)
    BY <1>2 DEF IsFinal
  <1>4. Says(t, s, j)
    BY SecondSays
  <1> HIDE DEF j, t
  <1>5. Sensible(t)
    <2>1. Given(t, "margins", NoMargins) \in [Edges -> Nat]
      BY <1>4 DEF Sensible, Says
    <2>2. Given(t, "quality", "normal") \in {"fast", "normal", "best"}
      BY <1>2, <1>3, <1>4, QualityAgain DEF Sensible, Says
    <2>3. Fits(t) \in BOOLEAN /\ Fills(t) \in BOOLEAN
      BY <1>2, <1>4 DEF Says
    <2> QED  BY <2>1, <2>2, <2>3 DEF Sensible
  <1>6. Size(Given(t, "size", "letter"), caps) = Size(Given(s, "size", "letter"), caps)
    BY <1>2, <1>3, <1>4 DEF Size, Says
  <1>7. Quality(Given(t, "quality", "normal"), caps)
          = Quality(Given(s, "quality", "normal"), caps)
    BY <1>2, <1>3, <1>4, QualityAgain DEF Sensible, Says
  <1>8. Bleeds(t, caps) = Bleeds(s, caps)
    BY <1>2, <1>3, <1>4 DEF Bleeds, Says
  <1>9. SidesOf(t, caps) = SidesOf(s, caps)
    BY <1>2, <1>3, <1>4, <1>8 DEF SidesOf, Says
  <1>10. \A m : IsFinal(m, t, caps) => IsFinal(m, s, caps)
    BY <1>4, <1>6, <1>7, <1>8, <1>9 DEF IsFinal, Says
  <1> QED  BY <1>4, <1>5, <1>10 DEF t, Says

(* Nor does it change the flags, but for the orientation of an image that is*)
(* to fit or fill the page, which is not returned.                         *)
LEMMA FlagsAgain ==
  ASSUME NEW s, NEW caps, Sensible(s)
  PROVE  LET t == Second(s, caps) IN
         /\ FlagsOf(t, caps) \ Orientations = FlagsOf(s, caps) \ Orientations
         /\ Turn(s) = {"autoRotate"} \/ ~ (Fits(s) \/ Fills(s)) =>
              FlagsOf(t, caps) = FlagsOf(s, caps)
  <1> DEFINE t == Second(s, caps)
             j == Final(s, caps)
             n == j.native
             f == FlagsOf(s, caps)
  <1>1. Fits(s) \in BOOLEAN /\ Fills(s) \in BOOLEAN
    BY DEF Sensible
  <1>2. /\ IsFinal(n, s, caps) /\ n.flags = f
         /\ j.duplex = n.duplex /\ j.borderless = n.borderless
         /\ j.fit = (FitFlags \subseteq n.flags) /\ j.fill = (ScaleFlags \subseteq n.flags)
         /\ j.turn = Orientations \cap n.flags
    BY <1>1, FinalJava
  <1>3. n.duplex = SidesOf(s, caps) /\ n.borderless = Bleeds(s, caps)
    BY <1>2 DEF IsFinal
  <1>4. Says(t, s, j)
    BY SecondSays
  <1>5. /\ ScaleFlags \subseteq f <=> Fills(s)
        /\ FitFlags \subseteq f <=> ~ Fills(s) /\ Fits(s)
        /\ "autoRotate" \in f <=> Turn(s) = {"autoRotate"} \/ Fills(s) \/ Fits(s)
        /\ "landscape" \in f <=> Turn(s) = {"landscape"}
    <2>1. BackOf(SidesOf(s, caps), caps) \in {{}, {"rotateBack"}}
      BY DEF BackOf
    <2> QED  BY <1>1, <2>1, FlagsTold DEF FlagsOf
  <1> HIDE DEF j, t, f
  <1>6. Fills(t) = Fills(s) /\ Fits(t) = (~ Fills(s) /\ Fits(s))
    BY <1>1, <1>2, <1>4, <1>5 DEF Says
  <1>7. ScaleOf(Fills(t), Fits(t)) = ScaleOf(Fills(s), Fits(s))
    BY <1>1, <1>6 DEF ScaleOf
  <1>8. SidesOf(t, caps) = SidesOf(s, caps)
    <2>1. Bleeds(t, caps) = Bleeds(s, caps)
      BY <1>2, <1>3, <1>4 DEF Bleeds, Says
    <2> QED  BY <1>2, <1>3, <1>4, <2>1 DEF SidesOf, Says
  <1> DEFINE C == CentreOf(Alignment(s))
             B == BackOf(SidesOf(s, caps), caps)
             S == ScaleOf(Fills(s), Fits(s))
  <1>9. FlagsOf(t, caps) = Turn(t) \cup S \cup C \cup B /\ f = Turn(s) \cup S \cup C \cup B
    BY <1>4, <1>7, <1>8 DEF FlagsOf, f, Says
  <1> HIDE DEF S, C, B
  <1>10. /\ Turn(s) \subseteq Orientations /\ Turn(t) \subseteq Orientations
         /\ Turn(s) \in {{"portrait"}, {"landscape"}, {"autoRotate"}}
    BY TurnIs DEF Orientations
  <1>11. Turn(t) = IF "autoRotate" \in f THEN {"autoRotate"}
                   ELSE IF "landscape" \in f THEN {"landscape"} ELSE {"portrait"}
    BY <1>2, <1>4 DEF Orientations, Says
  <1>12. FlagsOf(t, caps) \ Orientations = f \ Orientations
    BY <1>9, <1>10
  <1>13. Turn(s) = {"autoRotate"} \/ ~ (Fits(s) \/ Fills(s)) => Turn(t) = Turn(s)
    BY <1>5, <1>10, <1>11
  <1>14. Turn(s) = {"autoRotate"} \/ ~ (Fits(s) \/ Fills(s)) => FlagsOf(t, caps) = f
    BY <1>9, <1>13
  <1> QED  BY <1>12, <1>14 DEF t, f

(* Final parameters are known by the settings, but for their flags.        *)
LEMMA FinalOnce ==
  ASSUME NEW s, NEW caps, NEW m, NEW n, IsFinal(m, s, caps), IsFinal(n, s, caps)
  PROVE  \A x \in CFields \ {"flags"} : m[x] = n[x]
  <1>1. /\ m.pcl = n.pcl /\ m.size = n.size /\ m.quality = n.quality /\ m.duplex = n.duplex
        /\ m.borderless = n.borderless /\ m.jobMargins = n.jobMargins
    BY DEF IsFinal
  <1>2. m.units = n.units
    BY <1>1 DEF IsFinal
  <1>3. DefaultMargins(m, caps) = DefaultMargins(n, caps)
    BY <1>1 DEF DefaultMargins
  <1>4. m.printMargins = n.printMargins /\ m.width = n.width /\ m.height = n.height
    BY <1>1, <1>2, <1>3 DEF IsFinal
  <1> QED  BY <1>1, <1>2, <1>4 DEF CFields

(* Settings that were taken over are returned as they are, so that a client*)
(* may go on asking.                                                       *)
LEMMA RoundsEnd ==
  ASSUME NEW s, NEW caps, Sensible(s)
  PROVE  Second(Second(s, caps), caps) = Second(s, caps)
  <1> DEFINE t == Second(s, caps)
             j == Final(s, caps)
             k == Final(t, caps)
             f == FlagsOf(s, caps)
             h == FlagsOf(t, caps)
  <1>1. /\ Sensible(t) /\ \A n : IsFinal(n, t, caps) => IsFinal(n, s, caps)
    BY FinalAgain
  <1>2. Says(t, s, j)
    BY SecondSays
  <1> HIDE DEF t
  <1>3. /\ IsFinal(j.native, s, caps) /\ j.native.flags = f
        /\ j.size = j.native.size /\ j.quality = j.native.quality
        /\ j.duplex = j.native.duplex /\ j.borderless = j.native.borderless
        /\ j.fit = (FitFlags \subseteq f) /\ j.fill = (ScaleFlags \subseteq f)
        /\ j.turn = Orientations \cap f
    BY FinalJava DEF Sensible
  <1>4. /\ IsFinal(k.native, t, caps) /\ k.native.flags = h
        /\ k.size = k.native.size /\ k.quality = k.native.quality
        /\ k.duplex = k.native.duplex /\ k.borderless = k.native.borderless
        /\ k.fit = (FitFlags \subseteq h) /\ k.fill = (ScaleFlags \subseteq h)
        /\ k.turn = Orientations \cap h
    BY <1>1, FinalJava DEF Sensible
  <1> HIDE DEF j, k
  <1>5. /\ k.size = j.size /\ k.quality = j.quality
        /\ k.duplex = j.duplex /\ k.borderless = j.borderless
    <2>1. \A x \in CFields \ {"flags"} : j.native[x] = k.native[x]
      BY <1>1, <1>3, <1>4, FinalOnce
    <2> QED  BY <1>3, <1>4, <2>1 DEF CFields
  <1>6. ASSUME NEW o, Sensible(o)
        PROVE  LET g == FlagsOf(o, caps) IN
               /\ ScaleFlags \subseteq g <=> Fills(o)
               /\ FitFlags \subseteq g <=> ~ Fills(o) /\ Fits(o)
               /\ "autoRotate" \in g <=> Turn(o) = {"autoRotate"} \/ Fills(o) \/ Fits(o)
               /\ "landscape" \in g <=> Turn(o) = {"landscape"}
    <2>1. BackOf(SidesOf(o, caps), caps) \in {{}, {"rotateBack"}}
      BY DEF BackOf
    <2> QED  BY <1>6, <2>1, FlagsTold DEF FlagsOf, Sensible
  <1>7. /\ ScaleFlags \subseteq f <=> Fills(s)
        /\ FitFlags \subseteq f <=> ~ Fills(s) /\ Fits(s)
        /\ "autoRotate" \in f <=> Turn(s) = {"autoRotate"} \/ Fills(s) \/ Fits(s)
        /\ "landscape" \in f <=> Turn(s) = {"landscape"}
    BY <1>6
  <1>8. /\ ScaleFlags \subseteq h <=> Fills(t)
        /\ FitFlags \subseteq h <=> ~ Fills(t) /\ Fits(t)
        /\ "autoRotate" \in h <=> Turn(t) = {"autoRotate"} \/ Fills(t) \/ Fits(t)
        /\ "landscape" \in h <=> Turn(t) = {"landscape"}
    BY <1>1, <1>6
  <1> HIDE DEF f, h
  <1>9. /\ Fits(t) = j.fit /\ Fills(t) = j.fill
        /\ Turn(t) = IF "autoRotate" \in j.turn THEN {"autoRotate"}
                     ELSE IF "landscape" \in j.turn THEN {"landscape"} ELSE {"portrait"}
    BY <1>2 DEF Says
  <1>10. k.fit = j.fit /\ k.fill = j.fill
    BY <1>3, <1>4, <1>7, <1>8, <1>9
  <1>11. /\ "autoRotate" \in j.turn <=> "autoRotate" \in f
         /\ "landscape" \in j.turn <=> "landscape" \in f
         /\ "autoRotate" \in k.turn <=> "autoRotate" \in h
         /\ "landscape" \in k.turn <=> "landscape" \in h
    BY <1>3, <1>4 DEF Orientations
  <1>12. "autoRotate" \in k.turn <=> "autoRotate" \in j.turn
    BY <1>3, <1>7, <1>8, <1>9, <1>11
  <1>13. "autoRotate" \notin k.turn => ("landscape" \in k.turn <=> "landscape" \in j.turn)
    BY <1>8, <1>9, <1>11, <1>12
  <1>14. GetJobParams(k) = GetJobParams(j)
    BY <1>5, <1>10, <1>12, <1>13 DEF GetJobParams
  <1>15. Merged(GetJobParams(j), Merged(GetJobParams(j), s)) = Merged(GetJobParams(j), s)
    BY DEF Merged
  <1>16. t = Merged(GetJobParams(j), s) /\ Second(t, caps) = Merged(GetJobParams(k), t)
    BY DEF Second, t, j, k
  <1> QED  BY <1>14, <1>15, <1>16 DEF t

(***************************************************************************)
(* What a started job carries.                                             *)
(***************************************************************************)

(* The parameters a job is started with, by wprintStartJob.                *)
StartedWith(s, caps) == [ToC(Final(s, caps)) EXCEPT !.pcl = PrintFormat(caps)]

(* They are the final ones: the format it prints in is that of its margins.*)
LEMMA StartedIs ==
  ASSUME NEW s, NEW caps, Sensible(s), PrintFormat(caps) # "none"
  PROVE  /\ IsFinal(StartedWith(s, caps), s, caps)
         /\ StartedWith(s, caps).flags = Aligned(FlagsOf(s, caps), Alignment(s))
  <1> DEFINE n == Final(s, caps).native
             c1 == ToC(Final(s, caps))
             m == StartedWith(s, caps)
  <1>1.  /\ IsC(c1) /\ IsFinal(n, s, caps)
         /\ c1.pcl = n.pcl /\ c1.size = n.size /\ c1.quality = n.quality
         /\ c1.duplex = n.duplex /\ c1.borderless = n.borderless
         /\ c1.units = n.units /\ c1.jobMargins = n.jobMargins
         /\ c1.printMargins = n.printMargins /\ c1.width = n.width /\ c1.height = n.height
         /\ c1.flags = Aligned(FlagsOf(s, caps), Alignment(s))
    BY StartedFields DEF Sensible
  <1>2. m = [c1 EXCEPT !.pcl = PrintFormat(caps)]
    BY DEF StartedWith
  <1> HIDE DEF n, c1, m
  <1>3.  /\ IsC(m) /\ m.pcl = PrintFormat(caps) /\ m.size = n.size /\ m.quality = n.quality
         /\ m.duplex = n.duplex /\ m.borderless = n.borderless
         /\ m.units = n.units /\ m.jobMargins = n.jobMargins
         /\ m.printMargins = n.printMargins /\ m.width = n.width /\ m.height = n.height
         /\ m.flags = Aligned(FlagsOf(s, caps), Alignment(s))
    BY <1>1, <1>2 DEF IsC, CFields
  <1>4. PrintFormat(caps) = PclOf(caps)
    BY DEF PrintFormat, PclOf
  <1>5. n.pcl = PclOf(caps)
    BY <1>1 DEF IsFinal
  <1>6. DefaultMargins(m, caps) = DefaultMargins(n, caps)
    BY <1>3, <1>4, <1>5 DEF DefaultMargins
  <1>7. IsFinal(m, s, caps)
    BY <1>1, <1>3, <1>4, <1>6 DEF IsFinal
  <1> QED  BY <1>3, <1>7 DEF m

(* What becomes of full bleed, duplex and quality: WishesGranted of final  *)
(* parameters.                                                             *)
LEMMA WishesFinal ==
  ASSUME NEW s, NEW caps, NEW n, Sensible(s), IsFinal(n, s, caps)
  PROVE  LET bleed == Given(s, "fullBleed", "off") = "on" IN
    /\ n.borderless <=> /\ bleed /\ caps.borderless
                        /\ Given(s, "margins", NoMargins) = NoMargins
    /\ n.duplex # Given(s, "sides", "none") => ~ caps.duplex \/ n.borderless
    /\ ~ (n.borderless /\ n.duplex # "none")
    /\ Given(s, "quality", "normal") \in caps.qualities =>
         n.quality = Given(s, "quality", "normal")
  <1>1. /\ n.quality = Quality(Given(s, "quality", "normal"), caps)
        /\ n.duplex = SidesOf(s, caps) /\ n.borderless = Bleeds(s, caps)
    BY DEF IsFinal
  <1>2. n.borderless <=> /\ Given(s, "fullBleed", "off") = "on" /\ caps.borderless
                         /\ Given(s, "margins", NoMargins) = NoMargins
    BY <1>1 DEF Bleeds
  <1>3. /\ n.duplex # Given(s, "sides", "none") => ~ caps.duplex \/ n.borderless
        /\ ~ (n.borderless /\ n.duplex # "none")
    BY <1>1 DEF SidesOf
  <1>4. Given(s, "quality", "normal") \in caps.qualities =>
          n.quality = Given(s, "quality", "normal")
    BY <1>1, QualityAgain DEF Sensible
  <1> QED  BY <1>2, <1>3, <1>4

(* A job that is to be centred has both flags for it, and none that says   *)
(* otherwise (AlignmentKept).                                              *)
LEMMA AlignmentFinal ==
  ASSUME NEW s, NEW n, NEW image, NEW f, "center" \in Alignment(s),
         n.flags = Aligned(f, Alignment(s))
  PROVE  {"centerH", "centerV"} \subseteq Flags(PageOf(n, image, 1))
  <1>1. n.flags = (f \ CentreFlags) \cup {"centerV", "centerH"}
    BY DEF Aligned
  <1>2. "centerOnOrientation" \notin n.flags
    BY <1>1 DEF CentreFlags
  <1>3. PageOf(n, image, 1).flags = n.flags
    BY DEF PageOf
  <1> HIDE DEF PageOf
  <1>4. Flags(PageOf(n, image, 1)) = n.flags
    BY <1>2, <1>3 DEF Flags
  <1> QED  BY <1>1, <1>4

(* A length in pixels is the length to a pixel, and never more.            *)
LEMMA Pixel ==
  ASSUME NEW a \in Nat, NEW b \in Nat, NEW u \in Nat, a >= b
  PROVE  /\ Pixels(a - b, u) \in Nat
         /\ a * u - Inch < b * u + Pixels(a - b, u) * Inch
         /\ b * u + Pixels(a - b, u) * Inch <= a * u
  <1> DEFINE x == (a - b) * u
  <1>1. x \in Nat /\ a * u = b * u + x
    BY Z3
  <1> HIDE DEF x
  <1>2. /\ x \div 254000 \in Nat /\ (x \div 254000) * 254000 <= x
        /\ x - 254000 < (x \div 254000) * 254000
    BY <1>1
  <1>3. Pixels(a - b, u) = x \div 254000
    BY DEF Pixels, Inch, x
  <1>4. a * u \in Nat /\ b * u \in Nat
    OBVIOUS
  <1> QED  BY <1>1, <1>2, <1>3, <1>4 DEF Inch

(* If there is a pixel between the larger margins there is one between the *)
(* margins in pixels, which are each rounded down.                         *)
LEMMA RoomLeft ==
  ASSUME NEW l \in Int, NEW u \in Nat, NEW a \in Nat, NEW b \in Nat,
         NEW o \in Nat, NEW p \in Nat, a >= o, b >= p,
         Pixels(l - (a + b), u) > 0
  PROVE  Pixels(l - (o + p), u) > Pixels(a - o, u) + Pixels(b - p, u)
  <1> DEFINE x == (a - o) * u
             y == (b - p) * u
             r == (l - (a + b)) * u
             t == (l - (o + p)) * u
  <1>1. x \in Nat /\ y \in Nat /\ r \in Int /\ t \in Int
    OBVIOUS
  <1>2. t = x + y + r
    <2>1. \A d, e, f \in Int : (d + e + f) * u = d * u + e * u + f * u
      BY Z3
    <2>2. a - o \in Int /\ b - p \in Int /\ l - (a + b) \in Int
          /\ l - (o + p) = (a - o) + (b - p) + (l - (a + b))
      OBVIOUS
    <2> QED  BY <2>1, <2>2
  <1>3. /\ Pixels(l - (a + b), u) = r \div 254000 /\ Pixels(l - (o + p), u) = t \div 254000
        /\ Pixels(a - o, u) = x \div 254000 /\ Pixels(b - p, u) = y \div 254000
    BY DEF Pixels, Inch
  <1> HIDE DEF x, y, r, t
  <1>4. r \div 254000 > 0
    BY <1>3
  <1>5. t \div 254000 > x \div 254000 + y \div 254000
    BY <1>1, <1>2, <1>4
  <1> QED  BY <1>3, <1>5

(* What stays blank is the larger margin, to a pixel, and what is left is  *)
(* printed on (MarginsHonoured of final parameters).                       *)
LEMMA MarginsFinal ==
  ASSUME NEW s, NEW a, NEW n, Sensible(s), \A e \in Edges : a.margins[e] \in Nat,
         IsFinal(n, s, Capabilities(a))
  PROVE  LET own      == DefaultMargins(n, Capabilities(a))
             asked    == Given(s, "margins", NoMargins)
             most(e)  == Greatest(own[e], asked[e])
             blank(e) == own[e] * n.units + n.printMargins[e] * Inch
             left(length, from, to) == Pixels(length - (most(from) + most(to)), n.units)
         IN /\ \A e \in Edges : /\ most(e) * n.units - Inch < blank(e)
                                /\ blank(e) <= most(e) * n.units
            /\ left(Sheet(n.size)[1], "left", "right") > 0 =>
                 n.width > n.printMargins.left + n.printMargins.right
            /\ left(Sheet(n.size)[2], "top", "bottom") > 0 =>
                 n.height > n.printMargins.top + n.printMargins.bottom
  <1> DEFINE caps == Capabilities(a)
             own      == DefaultMargins(n, caps)
             asked    == Given(s, "margins", NoMargins)
             most(e)  == Greatest(own[e], asked[e])
             u == n.units
             pm == n.printMargins
  <1>1. /\ n.size = Size(Given(s, "size", "letter"), caps)
        /\ n.borderless = Bleeds(s, caps) /\ n.units = Units(n.quality, caps)
        /\ n.jobMargins = asked
        /\ pm = [e \in Edges |-> IF ~ n.borderless /\ n.jobMargins[e] > own[e]
                                 THEN Pixels(n.jobMargins[e] - own[e], n.units) ELSE 0]
        /\ n.width  = Pixels(Sheet(n.size)[1] - (own.left + own.right), n.units)
        /\ n.height = Pixels(Sheet(n.size)[2] - (own.top + own.bottom), n.units)
    BY DEF IsFinal
  <1>2. u \in Nat
    BY <1>1, ResolutionAssumption DEF Units
  <1>3. n.size \in LaidOut
    <2>1. caps.sizes = MediaSizes(a)
      BY DEF Capabilities
    <2>2. MediaSizes(a) \subseteq LaidOut /\ "letter" \in LaidOut
      BY DEF MediaSizes, LaidOut
    <2> HIDE DEF caps
    <2> QED  BY <1>1, <2>1, <2>2 DEF Size
  <1>4. Sheet(n.size)[1] \in Int /\ Sheet(n.size)[2] \in Int
    <2>1. \A x \in LaidOut : Sheet(x)[1] \in Int /\ Sheet(x)[2] \in Int
      BY DEF LaidOut, Sheet, Mil
    <2> QED  BY <1>3, <2>1
  <1>5. \A e \in Edges : own[e] \in Nat /\ asked[e] \in Nat
    <2>1. \A e \in Edges : caps.margins[e] \in Nat
      BY DEF Capabilities, OwnMargins, Hundredth
    <2>2. \A e \in Edges : NoMargins[e] = 0
      BY DEF NoMargins
    <2> HIDE DEF caps
    <2>3. \A e \in Edges : own[e] \in Nat
      BY <2>1, <2>2 DEF DefaultMargins
    <2> HIDE DEF own, asked
    <2>4. asked \in [Edges -> Nat]
      BY DEF Sensible, asked
    <2> QED  BY <2>3, <2>4
  <1>6. \A e \in Edges : n.borderless => own[e] = 0 /\ asked[e] = 0
    <2> HIDE DEF caps
    <2>1. n.borderless => asked = NoMargins
      BY <1>1 DEF Bleeds
    <2>2. n.borderless => own = NoMargins
      BY DEF DefaultMargins
    <2> HIDE DEF own, asked
    <2> QED  BY <2>1, <2>2 DEF NoMargins
  <1> HIDE DEF own, asked, caps
  <1>7. ASSUME NEW e \in Edges
        PROVE  /\ most(e) \in Nat /\ most(e) >= own[e]
               /\ pm[e] = Pixels(most(e) - own[e], u)
    <2>1. most(e) \in Nat /\ most(e) >= own[e]
      BY <1>5 DEF Greatest
    <2>2. Pixels(0, u) = 0
      BY <1>2 DEF Pixels, Inch
    <2>3. CASE ~ n.borderless /\ asked[e] > own[e]
      <3>1. most(e) = asked[e]
        BY <1>5, <2>3 DEF Greatest
      <3> QED  BY <1>1, <2>1, <2>3, <3>1
    <2>4. CASE ~ (~ n.borderless /\ asked[e] > own[e])
      <3>1. most(e) = own[e]
        BY <1>5, <1>6, <2>4 DEF Greatest
      <3>2. pm[e] = 0
        BY <1>1, <2>4
      <3>3. most(e) - own[e] = 0
        BY <1>5, <3>1
      <3> QED  BY <2>1, <2>2, <3>2, <3>3
    <2> QED  BY <2>3, <2>4
  <1> HIDE DEF most, u, pm
  <1>8. \A e \in Edges : /\ most(e) * u - Inch < own[e] * u + pm[e] * Inch
                         /\ own[e] * u + pm[e] * Inch <= most(e) * u
    BY <1>2, <1>5, <1>7, Pixel
  <1>9. "left" \in Edges /\ "right" \in Edges /\ "top" \in Edges /\ "bottom" \in Edges
    BY DEF Edges
  <1>10. Pixels(Sheet(n.size)[1] - (most("left") + most("right")), u) > 0 =>
           n.width > pm["left"] + pm["right"]
    <2> SUFFICES ASSUME Pixels(Sheet(n.size)[1] - (most("left") + most("right")), u) > 0
                 PROVE  n.width > pm["left"] + pm["right"]
      OBVIOUS
    <2>1. Pixels(Sheet(n.size)[1] - (own["left"] + own["right"]), u)
          > Pixels(most("left") - own["left"], u) + Pixels(most("right") - own["right"], u)
      BY <1>2, <1>4, <1>5, <1>7, <1>9, RoomLeft
    <2>2. n.width = Pixels(Sheet(n.size)[1] - (own["left"] + own["right"]), u)
      BY <1>1 DEF u
    <2> QED  BY <1>7, <1>9, <2>1, <2>2
  <1>11. Pixels(Sheet(n.size)[2] - (most("top") + most("bottom")), u) > 0 =>
           n.height > pm["top"] + pm["bottom"]
    <2> SUFFICES ASSUME Pixels(Sheet(n.size)[2] - (most("top") + most("bottom")), u) > 0
                 PROVE  n.height > pm["top"] + pm["bottom"]
      OBVIOUS
    <2>1. Pixels(Sheet(n.size)[2] - (own["top"] + own["bottom"]), u)
          > Pixels(most("top") - own["top"], u) + Pixels(most("bottom") - own["bottom"], u)
      BY <1>2, <1>4, <1>5, <1>7, <1>9, RoomLeft
    <2>2. n.height = Pixels(Sheet(n.size)[2] - (own["top"] + own["bottom"]), u)
      BY <1>1 DEF u
    <2> QED  BY <1>7, <1>9, <2>1, <2>2
  <1> QED  BY <1>8, <1>10, <1>11 DEF own, asked, most, u, pm, caps

(* A job started with settings that were taken over prints like one started*)
(* with the settings themselves (FinalSettles).                            *)
LEMMA Settles ==
  ASSUME NEW s, NEW caps, Sensible(s), PrintFormat(caps) # "none"
  PROVE  LET native == StartedWith(Second(s, caps), caps)
             direct == StartedWith(s, caps)
         IN \/ native = direct
            \/ /\ Turn(s) # {"autoRotate"}
               /\ Given(s, "fit", FALSE) \/ Given(s, "fill", FALSE)
               /\ [native EXCEPT !.flags = @ \ Orientations]
                    = [direct EXCEPT !.flags = @ \ Orientations]
  <1> DEFINE t == Second(s, caps)
             m == StartedWith(t, caps)
             n == StartedWith(s, caps)
             A == Alignment(s)
  <1>1. /\ Sensible(t) /\ Alignment(t) = A
        /\ \A o : IsFinal(o, t, caps) => IsFinal(o, s, caps)
    BY FinalAgain
  <1>2. /\ FlagsOf(t, caps) \ Orientations = FlagsOf(s, caps) \ Orientations
        /\ Turn(s) = {"autoRotate"} \/ ~ (Fits(s) \/ Fills(s)) =>
             FlagsOf(t, caps) = FlagsOf(s, caps)
    BY FlagsAgain
  <1> HIDE DEF t, A
  <1>3. /\ IsFinal(m, s, caps) /\ m.flags = Aligned(FlagsOf(t, caps), A)
        /\ IsFinal(n, s, caps) /\ n.flags = Aligned(FlagsOf(s, caps), A)
    BY <1>1, StartedIs DEF A
  <1> HIDE DEF m, n
  <1>4. \A x \in CFields \ {"flags"} : m[x] = n[x]
    BY <1>3, FinalOnce
  <1>5. IsC(m) /\ IsC(n)
    BY <1>3 DEF IsFinal
  <1>6. CASE Turn(s) = {"autoRotate"} \/ ~ (Fits(s) \/ Fills(s))
    <2>1. m.flags = n.flags
      BY <1>2, <1>3, <1>6
    <2>2. \A x \in CFields : m[x] = n[x]
      BY <1>4, <2>1
    <2>3. m = n
      BY <1>5, <2>2, SameC
    <2> QED  BY <2>3 DEF m, n, t
  <1>7. CASE ~ (Turn(s) = {"autoRotate"} \/ ~ (Fits(s) \/ Fills(s)))
    <2>1. \A f : Aligned(f, A) \ Orientations = Aligned(f \ Orientations, A) \ Orientations
      <3>1. CASE A = {}
        BY <3>1 DEF Aligned
      <3>2. CASE A # {} /\ "center" \in A
        BY <3>2 DEF Aligned
      <3>3. CASE A # {} /\ "center" \notin A
        BY <3>3 DEF Aligned
      <3> QED  BY <3>1, <3>2, <3>3
    <2>2. m.flags \ Orientations = n.flags \ Orientations
      BY <1>2, <1>3, <2>1
    <2> DEFINE p == [m EXCEPT !.flags = @ \ Orientations]
               q == [n EXCEPT !.flags = @ \ Orientations]
    <2>3. /\ IsC(p) /\ p.flags = m.flags \ Orientations
          /\ \A x \in CFields \ {"flags"} : p[x] = m[x]
      BY <1>5 DEF IsC, CFields
    <2>4. /\ IsC(q) /\ q.flags = n.flags \ Orientations
          /\ \A x \in CFields \ {"flags"} : q[x] = n[x]
      BY <1>5 DEF IsC, CFields
    <2> HIDE DEF p, q
    <2>5. \A x \in CFields : p[x] = q[x]
      BY <1>4, <2>2, <2>3, <2>4
    <2>6. p = q
      BY <2>3, <2>4, <2>5, SameC
    <2>7. Given(s, "fit", FALSE) \/ Given(s, "fill", FALSE)
      BY <1>7 DEF Fits, Fills
    <2> QED  BY <1>7, <2>6, <2>7 DEF p, q, m, n, t
  <1> QED  BY <1>6, <1>7

(***************************************************************************)
(* The client, the service and the page.                                   *)
(***************************************************************************)

(* The settings a job is printed with: its client's, or those returned.    *)
SettingsOf(returned, r) ==
  IF returned THEN Second(r[2], Capabilities(r[1])) ELSE r[2]

(* What is known of a job at each stage.                                   *)
JobInv ==
  LET r    == job.request
      caps == Capabilities(r[1])
      s    == SettingsOf(job.returned, r)
  IN \/ job = NoJob
     \/ /\ r \in Requests /\ info = PrinterInfo(r[1])
        /\ \/ /\ job.stage = "asked" /\ job.returned \in BOOLEAN
              /\ job.settings = s
           \/ /\ job.stage = "final" /\ job.returned \in BOOLEAN
              /\ job.settings = s /\ job.params = Final(s, caps)
           \/ /\ job.stage = "answered" /\ job.settings = SettingsOf(TRUE, r)
           \/ /\ job.stage = "started" /\ job.returned \in BOOLEAN
              /\ job.native = StartedWith(s, caps) /\ PrintFormat(caps) # "none"

(* With what is known of the printer, and of the page.                     *)
PageInv ==
  /\ info = NoInfo \/ info = PrinterInfo(info.printer)
  /\ IF pc = "job" THEN page = NoPage ELSE job = NoJob
  /\ JobInv

(* What is kept of a printer.                                              *)
LEMMA InfoIs ==
  ASSUME NEW a
  PROVE  /\ PrinterInfo(a).printer = a /\ PrinterInfo(a).caps = Capabilities(a)
         /\ PrinterInfo(a).defaults = DefaultJobParams
  BY DEF PrinterInfo

(* What is assumed of the requests.                                        *)
LEMMA RequestSensible ==
  ASSUME NEW r \in Requests
  PROVE  Sensible(r[2]) /\ \A e \in Edges : r[1].margins[e] \in Nat
  BY RequestAssumption DEF Sensible, Fits, Fills

(* It says what the run checks.                                            *)
LEMMA JobHolds == PageInv => JobIsAsWanted
  <1> SUFFICES ASSUME PageInv PROVE JobIsAsWanted
    OBVIOUS
  <1> DEFINE r    == job.request
             caps == Capabilities(r[1])
             s    == SettingsOf(job.returned, r)
  <1>0. NoJob.stage = "none"
    BY DEF NoJob
  <1>1. PrintedTypeOK
    <2>1. info = NoInfo \/ info.caps = Capabilities(info.printer)
      BY InfoIs DEF PageInv
    <2>2. job.stage \in {"none", "asked", "final", "answered", "started"}
      BY <1>0 DEF PageInv, JobInv
    <2> QED  BY <2>1, <2>2 DEF PrintedTypeOK, PageInv
  <1>2. ASSUME Started
        PROVE  /\ r \in Requests /\ info.caps = caps /\ job.returned \in BOOLEAN
               /\ job.native = StartedWith(s, caps) /\ PrintFormat(caps) # "none"
               /\ Sensible(Wanted) /\ Sensible(s) /\ Alignment(s) = Alignment(Wanted)
               /\ Wanted = r[2]
               /\ IsFinal(job.native, Wanted, caps)
               /\ job.native.flags = Aligned(FlagsOf(s, caps), Alignment(s))
    <2>1. /\ r \in Requests /\ info = PrinterInfo(r[1]) /\ job.returned \in BOOLEAN
          /\ job.native = StartedWith(s, caps) /\ PrintFormat(caps) # "none"
      BY <1>0, <1>2 DEF PageInv, JobInv, Started
    <2>2. Wanted = r[2]
      BY DEF Wanted
    <2>3. Sensible(Wanted)
      BY <2>1, <2>2, RequestSensible
    <2>4. s = Wanted \/ s = Second(Wanted, caps)
      BY <2>2 DEF SettingsOf
    <2> HIDE DEF s, caps
    <2>5. /\ Sensible(s) /\ Alignment(s) = Alignment(Wanted)
          /\ \A n : IsFinal(n, s, caps) => IsFinal(n, Wanted, caps)
      BY <2>3, <2>4, FinalAgain
    <2>6. /\ IsFinal(job.native, s, caps)
          /\ job.native.flags = Aligned(FlagsOf(s, caps), Alignment(s))
      BY <2>1, <2>5, StartedIs
    <2> QED  BY <2>1, <2>2, <2>3, <2>5, <2>6, InfoIs DEF caps
  <1>3. AlignmentKept
    <2> SUFFICES ASSUME Started, "center" \in Alignment(Wanted), NEW image \in Images
                 PROVE  {"centerH", "centerV"} \subseteq Flags(PageOf(job.native, image, 1))
      BY DEF AlignmentKept
    <2>1. job.native.flags = Aligned(FlagsOf(s, caps), Alignment(s))
          /\ Alignment(s) = Alignment(Wanted)
      BY <1>2
    <2> QED  BY <2>1, AlignmentFinal
  <1>4. FinalSettles
    <2> SUFFICES ASSUME Started, job.returned
                 PROVE  LET direct == [ToC(FinalParams(DefaultJobParams, Wanted, info.caps))
                                         EXCEPT !.pcl = PrintFormat(info.caps)]
                        IN \/ job.native = direct
                           \/ /\ Turn(Wanted) # {"autoRotate"}
                              /\ Given(Wanted, "fit", FALSE) \/ Given(Wanted, "fill", FALSE)
                              /\ [job.native EXCEPT !.flags = @ \ Orientations]
                                   = [direct EXCEPT !.flags = @ \ Orientations]
      BY DEF FinalSettles
    <2>1. s = Second(Wanted, caps)
      BY <1>2 DEF SettingsOf
    <2>2. job.native = StartedWith(Second(Wanted, caps), caps)
      BY <1>2, <2>1
    <2>3. [ToC(FinalParams(DefaultJobParams, Wanted, info.caps))
                                         EXCEPT !.pcl = PrintFormat(info.caps)]
            = StartedWith(Wanted, caps)
      BY <1>2 DEF StartedWith, Final
    <2>4. Sensible(Wanted) /\ PrintFormat(caps) # "none"
      BY <1>2
    <2> DEFINE direct == [ToC(FinalParams(DefaultJobParams, Wanted, info.caps))
                            EXCEPT !.pcl = PrintFormat(info.caps)]
    <2> HIDE DEF caps
    <2>5. direct = StartedWith(Wanted, caps)
      BY <2>3
    <2> HIDE DEF direct
    <2> DEFINE once  == StartedWith(Wanted, caps)
               twice == StartedWith(Second(Wanted, caps), caps)
    <2>6. \/ twice = once
          \/ /\ Turn(Wanted) # {"autoRotate"}
             /\ Given(Wanted, "fit", FALSE) \/ Given(Wanted, "fill", FALSE)
             /\ [twice EXCEPT !.flags = @ \ Orientations]
                  = [once EXCEPT !.flags = @ \ Orientations]
      BY ONLY <2>4, Settles
    <2>7. job.native = twice /\ direct = once
      BY <2>2, <2>5
    <2> HIDE DEF once, twice
    <2> QED  BY <2>6, <2>7 DEF direct
  <1>5. JobsAreIndependent
    <2> SUFFICES ASSUME job.stage = "final"
                 PROVE  job.params = FinalParams(DefaultJobParams, job.settings, info.caps)
      BY DEF JobsAreIndependent
    <2>1. /\ info = PrinterInfo(r[1]) /\ job.settings = s /\ job.params = Final(s, caps)
      BY <1>0 DEF PageInv, JobInv
    <2> QED  BY <2>1, InfoIs DEF Final
  <1>6. WishesGranted
    BY <1>2, WishesFinal DEF WishesGranted
  <1>7. MarginsHonoured
    BY <1>2, RequestSensible, MarginsFinal DEF MarginsHonoured
  <1> QED  BY <1>1, <1>3, <1>4, <1>5, <1>6, <1>7 DEF JobIsAsWanted

(* No step of the drawing gets to the client again.                        *)
LEMMA DrawLeaves ==
  ASSUME Next
  PROVE  pc # "job" /\ pc' # "job"
  <1>1. CASE GetInfo \/ SetOutputProperties \/ Request \/ Plain \/ Scaling \/ Window
    BY <1>1 DEF GetInfo, SetOutputProperties, Request, Plain, Scaling, Window
  <1>2. CASE Upright
    BY <1>2 DEF Upright, Fail
  <1>3. CASE FromCache
    BY <1>3 DEF FromCache
  <1>4. CASE Refill \/ Fill
    BY <1>4 DEF Refill, Fill, Fail
  <1>5. CASE Decode \/ Emit \/ MoveRow \/ Placed \/ ScaledAll \/ Sides \/ Return
    BY <1>5 DEF Decode, Emit, MoveRow, Placed, ScaledAll, Sides, Return, Fail
  <1> QED  BY <1>1, <1>2, <1>3, <1>4, <1>5 DEF Next

(* A client asks: what the service has kept of the printer is still so.    *)
LEMMA AskStep ==
  ASSUME PageInv, NEW r \in Requests, Ask(r)
  PROVE  PageInv'
  <1>1. /\ pc' = pc /\ page' = page /\ pc = "job" /\ page = NoPage
        /\ job' = [stage |-> "asked", request |-> r, settings |-> r[2], returned |-> FALSE]
        /\ info # NoInfo => info.printer = r[1]
        /\ info' = IF info = NoInfo THEN PrinterInfo(r[1]) ELSE info
    BY DEF Ask, vars, PageInv
  <1>2. info' = PrinterInfo(r[1])
    BY <1>1 DEF PageInv
  <1>3. JobInv'
    BY <1>1, <1>2 DEF JobInv, SettingsOf
  <1> QED  BY <1>1, <1>2, <1>3, InfoIs DEF PageInv

(* The service and the client go on.                                       *)
LEMMA ClientStep ==
  ASSUME PageInv, Resolve \/ Answer \/ TakeAnswer \/ StartJob \/ NextJob
  PROVE  PageInv'
  <1> DEFINE r    == job.request
             caps == Capabilities(r[1])
             s    == SettingsOf(job.returned, r)
  <1>0. NoJob.stage = "none"
    BY DEF NoJob
  <1>1. pc = "job" /\ pc' = pc /\ page' = page /\ info' = info /\ page = NoPage
    BY DEF Resolve, Answer, TakeAnswer, StartJob, NextJob, vars, PageInv
  <1>2. JobInv' => PageInv'
    BY <1>1 DEF PageInv
  <1>3. CASE Resolve
    <2>1. /\ r \in Requests /\ info = PrinterInfo(r[1]) /\ job.returned \in BOOLEAN
          /\ job.settings = s
      BY <1>0, <1>3 DEF PageInv, JobInv, Resolve
    <2>2. job' = [stage |-> "final", request |-> r, returned |-> job.returned,
                  settings |-> job.settings, params |-> Final(s, caps)]
      BY <1>3, <2>1, InfoIs DEF Resolve, Final
    <2>3. JobInv'
      BY <1>1, <2>1, <2>2 DEF JobInv
    <2> QED  BY <1>2, <2>3
  <1>4. CASE Answer
    <2>1. /\ r \in Requests /\ info = PrinterInfo(r[1])
          /\ job.settings = s /\ job.params = Final(s, caps)
      BY <1>0, <1>4 DEF PageInv, JobInv, Answer
    <2>2. job' = [stage |-> "answered", request |-> r, settings |-> Second(s, caps)]
      BY <1>4, <2>1 DEF Answer, Second
    <2>3. Second(s, caps) = SettingsOf(TRUE, r)
      BY <2>1, RequestSensible, RoundsEnd DEF SettingsOf
    <2>4. JobInv'
      BY <1>1, <2>1, <2>2, <2>3 DEF JobInv
    <2> QED  BY <1>2, <2>4
  <1>5. CASE TakeAnswer
    <2>1. /\ r \in Requests /\ info = PrinterInfo(r[1])
          /\ job.settings = SettingsOf(TRUE, r)
      BY <1>0, <1>5 DEF PageInv, JobInv, TakeAnswer
    <2>2. job' = [stage |-> "asked", request |-> r, settings |-> job.settings,
                  returned |-> TRUE]
      BY <1>5 DEF TakeAnswer
    <2>3. JobInv'
      BY <1>1, <2>1, <2>2 DEF JobInv
    <2> QED  BY <1>2, <2>3
  <1>6. CASE StartJob
    <2>1. /\ r \in Requests /\ info = PrinterInfo(r[1]) /\ job.returned \in BOOLEAN
          /\ job.params = Final(s, caps) /\ info.caps = caps
      BY <1>0, <1>6, InfoIs DEF PageInv, JobInv, StartJob
    <2>2. CASE PrintFormat(caps) = "none"
      <3>1. job' = NoJob
        BY <1>6, <2>1, <2>2 DEF StartJob
      <3>2. JobInv'
        BY <3>1 DEF JobInv
      <3> QED  BY <1>2, <3>2
    <2>3. CASE PrintFormat(caps) # "none"
      <3>1. job' = [stage |-> "started", request |-> r, returned |-> job.returned,
                    native |-> StartedWith(s, caps)]
        BY <1>6, <2>1, <2>3 DEF StartJob, StartedWith
      <3>2. JobInv'
        BY <1>1, <2>1, <2>3, <3>1 DEF JobInv
      <3> QED  BY <1>2, <3>2
    <2> QED  BY <2>2, <2>3
  <1>7. CASE NextJob
    <2>1. JobInv'
      BY <1>7 DEF JobInv, NextJob
    <2> QED  BY <1>2, <2>1
  <1> QED  BY <1>3, <1>4, <1>5, <1>6, <1>7

(* The page is drawn without the client.                                   *)
LEMMA PageStep ==
  ASSUME PageInv,
         (\E image \in Images, number \in {1, 2} : PrintPage(image, number)) \/ Draw
  PROVE  PageInv'
  <1>1. CASE \E image \in Images, number \in {1, 2} : PrintPage(image, number)
    <2>1. pc' = "setup" /\ job' = NoJob /\ info' = info
      BY <1>1 DEF PrintPage
    <2>2. JobInv'
      BY <2>1 DEF JobInv
    <2> QED  BY <2>1, <2>2 DEF PageInv
  <1>2. CASE Draw
    <2>1. pc # "job" /\ pc' # "job" /\ job' = job /\ info' = info
      BY <1>2, DrawLeaves DEF Draw, jobVars
    <2>2. job' = NoJob
      BY <2>1 DEF PageInv
    <2>3. JobInv'
      BY <2>2 DEF JobInv
    <2> QED  BY <2>1, <2>2, <2>3 DEF PageInv
  <1> QED  BY <1>1, <1>2

(* No step takes that from a job.                                        *)
LEMMA PageKeeps == PageInv /\ [PrintedNext]_allVars => PageInv'
  <1> SUFFICES ASSUME PageInv, [PrintedNext]_allVars PROVE PageInv'
    OBVIOUS
  <1>1. CASE \E r \in Requests : Ask(r)
    BY <1>1, AskStep
  <1>2. CASE Resolve \/ Answer \/ TakeAnswer \/ StartJob \/ NextJob
    BY <1>2, ClientStep
  <1>3. CASE (\E image \in Images, number \in {1, 2} : PrintPage(image, number)) \/ Draw
    BY <1>3, PageStep
  <1>4. CASE UNCHANGED allVars
    <2>1. pc' = pc /\ page' = page /\ info' = info /\ job' = job
      BY <1>4 DEF allVars, vars
    <2> QED  BY <2>1 DEF PageInv, JobInv
  <1> QED  BY <1>1, <1>2, <1>3, <1>4 DEF PrintedNext

(* Whatever the printer reports and whatever a client asks for, through any*)
(* number of rounds over the service: a started job carries the wishes the *)
(* printer can grant and no others, its margins are those of the printer and*)
(* of the client, to a pixel, what the service returns as final settings   *)
(* prints as the settings it was made of, and no job leaves anything behind in*)
(* the cached parameters (JobIsAsWanted).                                  *)
THEOREM WishesCarried == PrintedSpec => []JobIsAsWanted
  <1>1. PrintedInit => PageInv
    BY DEF PrintedInit, PageInv, JobInv
  <1> QED  BY <1>1, PageKeeps, JobHolds, PTL DEF PrintedSpec

(***************************************************************************)
(* Division, and pixels in rows.                                           *)
(***************************************************************************)

(* Division, and rows of pixels one after the other.                       *)
LEMMA Division ==
  ASSUME NEW a \in Int, NEW d \in Nat \ {0}
  PROVE  /\ a \div d \in Int /\ a % d \in Int
         /\ a = d * (a \div d) + (a % d) /\ 0 <= a % d /\ a % d < d
         /\ d * (a \div d) \in Int
         /\ d * (a \div d) <= a /\ a < d * (a \div d) + d
  <1> DEFINE q == a \div d
             p == d * q
             m == a % d
  <1>1. q \in Int /\ m \in Int /\ 0 <= m /\ m < d
    OBVIOUS
  <1>2. m = a - p
    OBVIOUS
  <1>3. p \in Int
    BY <1>1
  <1> HIDE DEF p
  <1>4. a = p + m /\ p <= a /\ a < p + d
    <2> HIDE DEF m
    <2> QED  BY <1>1, <1>2, <1>3
  <1> QED  BY <1>1, <1>3, <1>4 DEF p

(* A product grows with its factor.                                        *)
LEMMA Grows ==
  ASSUME NEW a \in Int, NEW b \in Int, NEW d \in Nat, a <= b
  PROVE  a * d \in Int /\ b * d \in Int /\ a * d <= b * d /\ a * d = d * a
  <1>1. (b - a) * d >= 0
    OBVIOUS
  <1>2. (b - a) * d = b * d - a * d
    OBVIOUS
  <1> QED  BY <1>1, <1>2

(* What is multiplied out is less only if a factor is.                     *)
LEMMA Smaller ==
  ASSUME NEW a \in Int, NEW b \in Int, NEW d \in Nat, d * a < d * b
  PROVE  a < b
  <1> SUFFICES ASSUME b <= a PROVE FALSE
    OBVIOUS
  <1> QED  BY Grows

(* A quotient is the number that fits between the products.                *)
LEMMA QuotientIs ==
  ASSUME NEW a \in Int, NEW d \in Nat \ {0}, NEW q \in Int, d * q <= a, a < d * q + d
  PROVE  a \div d = q /\ a % d = a - d * q
  <1> DEFINE p == d * (a \div d)
             t == d * q
  <1>0. d * (q + 1) = t + d /\ d * (a \div d + 1) = p + d /\ t \in Int
    BY Division
  <1>1. p \in Int /\ p <= a /\ a < p + d
    BY Division
  <1>2. p < t + d /\ t < p + d
    <2> HIDE DEF p, t
    <2> QED  BY <1>0, <1>1
  <1>3. a \div d < q + 1 /\ q < a \div d + 1
    BY <1>0, <1>2, Division, Smaller
  <1>4. a \div d = q
    BY <1>3, Division
  <1> QED  BY <1>4

(* A quotient grows with what is divided, and keeps to what bounds it.   *)
LEMMA QuotientGrows ==
  ASSUME NEW a \in Int, NEW b \in Int, NEW d \in Nat \ {0}, a <= b
  PROVE  a \div d <= b \div d
  <1>1. d * (a \div d) < d * (b \div d + 1)
    BY Division
  <1> QED  BY <1>1, Division, Smaller

(* A number whose product fits is no more than the quotient.             *)
LEMMA QuotientAtLeast ==
  ASSUME NEW a \in Int, NEW d \in Nat \ {0}, NEW q \in Int, d * q <= a
  PROVE  q <= a \div d
  <1>1. d * q < d * (a \div d + 1)
    BY Division
  <1> QED  BY <1>1, Division, Smaller

(* A number whose product does not fit is more than the quotient.        *)
LEMMA QuotientBelow ==
  ASSUME NEW a \in Int, NEW d \in Nat \ {0}, NEW q \in Int, a < d * q
  PROVE  a \div d < q
  <1>1. d * (a \div d) < d * q
    BY Division
  <1> QED  BY <1>1, Division, Smaller

(* A place in a buffer of rows of w pixels is in one row, at one column.   *)
LEMMA PlaceIs ==
  ASSUME NEW r \in Int, NEW w \in Nat \ {0}, NEW x \in 0 .. w - 1
  PROVE  /\ r * w + x \in Int
         /\ (r * w + x) \div w = r /\ (r * w + x) % w = x
  <1>1. r * w \in Int /\ r * w = w * r
    OBVIOUS
  <1> QED  BY <1>1, QuotientIs

(* Rows are apart.                                                         *)
LEMMA RowsApart ==
  ASSUME NEW r \in Int, NEW s \in Int, NEW w \in Nat, r < s
  PROVE  r * w + w <= s * w /\ r * w \in Int /\ s * w \in Int
  <1>1. (r + 1) * w <= s * w
    BY Grows
  <1>2. (r + 1) * w = r * w + w
    OBVIOUS
  <1> QED  BY <1>1, <1>2

(* A place is in the buffer if its row is.                                 *)
LEMMA PlaceInside ==
  ASSUME NEW r \in Nat, NEW w \in Nat \ {0}, NEW x \in 0 .. w - 1, NEW n \in Nat,
         NEW most \in Nat, r < n, w <= most
  PROVE  r * w + x \in 0 .. most * n - 1
  <1>1. r * w + w <= n * w /\ r * w \in Int /\ n * w \in Int
    BY RowsApart
  <1>2. w * n <= most * n /\ w * n = n * w /\ most * n \in Int
    BY Grows
  <1>3. r * w >= 0
    BY Grows
  <1> QED  BY <1>1, <1>2, <1>3

(***************************************************************************)
(* The drawing of a page: what is known at each step.                      *)
(***************************************************************************)

(* A file that can be printed, and its page.                               *)
Printable == HasHeader(page) /\ page.bad = -1 /\ ~ LosesLastSwath

(* What the scaler makes is cut by this at the top and on the left.        *)
TopCut  == Greatest(0, c.scaledH - c.printH) \div 2
LeftCut == Greatest(0, c.scaledW - c.printW) \div 2

(* The rows of the stripe, those of them that are white above the image or *)
(* below it, the first row of the area asked for, and the rows made of it. *)
StripeTotal == Least(PageHeight - sent, StripHeight)
WhiteRows   == IF sent < PadTop THEN Least(StripeTotal, PadTop - sent)
               ELSE IF page.padAll /\ sent >= PadTop + AreaHeight THEN StripeTotal ELSE 0
FirstAsked  == sent + req.blank - PadTop
LeftToMake  == IF c.scale = "none" THEN AreaHeight - FirstAsked
                                   ELSE c.scaledH - TopCut - FirstAsked
ToMake      == Least(StripeTotal - req.blank, LeftToMake)

(* The rows of the source for output rows from k, and up to k.             *)
FirstRow(k) == IF c.mode = "up" THEN (k * (c.srcH - 1)) \div (c.scaledH - 1)
                                ELSE (k * c.srcH) \div c.scaledH
LastRow(k) ==
  Least(IF c.mode = "up"
        THEN (k * (c.srcH - 1)) \div (c.scaledH - 1) + Rest(k * (c.srcH - 1), c.scaledH - 1)
        ELSE ((k + 1) * c.srcH) \div c.scaledH - 1 + Rest((k + 1) * c.srcH, c.scaledH),
        c.srcH - 1)

Colours == {Blank, Stale} \cup (Nat \X Nat)

-----------------------------------------------------------------------------
(* The decoder holds the rows of its swath, and its stream stands behind   *)
(* them.                                                                   *)
DecoderInv(d) ==
  \/ d.swath = -1 /\ d.pos = 0
  \/ /\ d.swath \in 0 .. c.sampH - 1
     /\ d.swath = (d.swath \div InputRows) * InputRows
     /\ d.base = d.swath
     /\ Decoder(page) \in {"jpeg", "png"} =>
          d.pos = d.swath + Least(InputRows, c.sampH - d.swath)

(* The cache of a sideways image holds every row of the file, or those of  *)
(* it that have been decoded.                                              *)
CacheInv ==
  /\ cache = [start |-> cache.start, lines |-> cache.lines]
  /\ cache.lines \in Seq(Nat)
  /\ \A i \in 1 .. Len(cache.lines) : cache.lines[i] = i - 1
  /\ IF pc = "fill" THEN Sideways(c.rot) /\ Len(cache.lines) < c.sampH
     ELSE cache.start # -1 => Len(cache.lines) = c.sampH

(* The pixel of the turned image, as the decoder makes it.                 *)
SeenPixel(y, x) == Seen(TurnedPixel(y, x))

(* The rows in the window are those of the turned image.                   *)
WindowRight ==
  /\ win = [first |-> win.first, last |-> win.last, rows |-> win.rows]
  /\ win.rows = [i \in 1 .. Len(win.rows) |-> win.rows[i]] /\ Len(win.rows) \in Nat
  /\ win.first \in Nat /\ win.last \in Nat
  /\ \A i \in 1 .. Len(win.rows), y \in Nat :
       y = win.first + i - 1 => win.rows[i] = [x \in 0 .. c.outW - 1 |-> SeenPixel(y, x)]

(* What is kept of them does not go beyond what a stripe from row b of the *)
(* scaled image on begins and ends with.                                   *)
WindowBefore(b) ==
  \/ c.scale = "none"
  \/ win.first = -1 /\ win.last = -1
  \/ /\ WindowRight /\ Len(win.rows) = win.last - win.first + 1
     /\ \A k \in 0 .. c.scaledH - 1 :
          /\ k >= b - 1 => win.first <= FirstRow(k)
          /\ k >= b => win.last <= LastRow(k)

KeptForNext     == \E b \in Int : b = sent - PadTop + TopCut /\ WindowBefore(b)
KeptForCall     == \E b \in Int : b = FirstAsked + TopCut /\ WindowBefore(b)
KeptAfterCall   == \E b \in Int : b = FirstAsked + TopCut + ToMake /\ WindowBefore(b)
KeptAfterReturn == \E b \in Int : b = sent + req.height - PadTop + TopCut /\ WindowBefore(b)

-----------------------------------------------------------------------------
(* Rows made so far.                                                       *)
Accounts(n) ==
  /\ req.height = req.blank + n
  /\ req.start = sent + req.height
  /\ req.rows = StripeTotal - req.height

(* The pixel of the area at row r of the stripe.                           *)
Ink(r, x) ==
  LET y == sent + r - PadTop
  IN IF c.scale = "none" THEN SeenPixel(y + c.rowOff, x + c.colOff)
                         ELSE ScaledPixel(y + TopCut, x + LeftCut)

InkedRow(r) == \A x \in 0 .. AreaWidth - 1 : out[r * PageWidth + (PadLeft + x)] = Ink(r, x)
Inked(n)    == \A r \in req.blank .. req.blank + n - 1 : InkedRow(r)

(* The call of wprint_image_decode_stripe, with rows of the image in it.   *)
Asked == /\ req.blank < StripeTotal
         /\ req.moved \in Int /\ req.got \in Int /\ req.count \in Int /\ req.y \in Int

ToScale == /\ c.scale # "none" /\ Asked /\ Accounts(0)
           /\ req.at = FirstAsked + TopCut /\ req.scaled = ToMake

PlainInv ==
  /\ c.scale = "none" /\ Asked
  /\ req.at = FirstAsked /\ req.got \in 0 .. ToMake
  /\ Accounts(req.got) /\ req.count = ToMake - req.got
  /\ req.y = FirstAsked + c.rowOff + req.got
  /\ Inked(req.got)

WindowInv ==
  /\ WindowRight /\ win.first = Needed.first /\ win.last = Needed.last

FillsWindow ==
  /\ ToScale /\ WindowInv
  /\ req.count = win.last - win.first + 1 - Len(win.rows) /\ req.count >= 0
  /\ req.y = win.first + Len(win.rows)
  /\ req.got \in Nat /\ (req.count = 0 => req.got > 0)

FullWindow == ToScale /\ WindowInv /\ Len(win.rows) = win.last - win.first + 1

(* The rows moved, and the rows the scaler has made that have not.         *)
IsMoved(j) == IF PageWidth < c.scaledW THEN j < req.moved ELSE j >= ToMake - req.moved

ScaledRow(j) ==
  \A x \in 0 .. c.scaledW - 1 :
    out[req.blank * PageWidth + ((j + Needed.offset) * c.scaledW + x)] = ScaledPixel(req.at + j, x)

MoveInv ==
  /\ req.moved \in 0 .. ToMake
  /\ \A j \in 0 .. ToMake - 1 :
       IF IsMoved(j) THEN InkedRow(req.blank + j) ELSE ScaledRow(j)

(* The white rows of the call.                                             *)
Begun ==
  /\ sent < PageHeight /\ req.blank = WhiteRows
  /\ DOMAIN out = 0 .. BufferSize - 1
  /\ \A r \in 0 .. req.blank - 1, x \in 0 .. PageWidth - 1 : out[r * PageWidth + x] = Blank

(* What the code makes of a pixel of the page: the one expected, but for   *)
(* the rows reduced from nine.                                             *)
Made(row, col) ==
  LET y == row - PadTop
      x == col - PadLeft
  IN IF y \notin 0 .. AreaHeight - 1 \/ x \notin 0 .. AreaWidth - 1 THEN Blank
     ELSE IF c.scale = "none" THEN SeenPixel(y + c.rowOff, x + c.colOff)
     ELSE ScaledPixel(y + TopCut, x + LeftCut)

(* StripeIsRight, with the rows of the page named.                         *)
StripeInv ==
  \A r \in 0 .. req.height - 1, x \in 0 .. PageWidth - 1, row \in Nat :
    row = sent + r => Overprinted(row) \/ out[r * PageWidth + x] = Made(row, x)

(* Each step of a call.                                                    *)
CallInv ==
  /\ pc \in {"plain", "scaling"} =>
       /\ Asked /\ Accounts(0) /\ req.at = FirstAsked
       /\ pc = "plain" <=> c.scale = "none"
       /\ KeptForCall
  /\ pc = "rows" =>
       \/ ToScale /\ KeptForCall
       \/ /\ c.scale # "none" /\ Asked /\ Accounts(ToMake) /\ req.scaled = 0 /\ Inked(ToMake)
          /\ KeptAfterCall
  /\ pc \in {"decode", "fill"} => PlainInv \/ FillsWindow
  /\ pc = "fill" => req.count > 0
  /\ pc = "emit" => FullWindow
  /\ pc = "move" => FullWindow /\ MoveInv
  /\ pc = "sides" =>
       /\ Asked /\ Accounts(ToMake) /\ Inked(ToMake)
       /\ KeptAfterCall
  /\ pc = "return" =>
       /\ req.height \in 1 .. StripeTotal
       /\ StripeInv
       /\ KeptAfterReturn

InCall == {"plain", "scaling", "rows", "decode", "fill", "emit", "move", "sides", "return"}

(* A page that is drawn without an error so far.                           *)
GoesOn ==
  /\ req.rc = "ok" /\ DecoderInv(dec) /\ CacheInv
  /\ pc = "page" => sent < PageHeight /\ KeptForNext
  /\ pc = "done" => sent = PageHeight
  /\ pc \in InCall => Begun /\ CallInv

Stopped == req.rc = "error" /\ ~ Printable /\ pc \in {"return", "done"}

ReqFields == {"start", "rows", "height", "blank", "at", "count", "y", "got", "scaled", "moved",
              "rc"}
DecoderShape(d) ==
  /\ d = [swath |-> d.swath, base |-> d.base, pos |-> d.pos, ok |-> d.ok, line |-> d.line]
  /\ d.swath \in Int /\ d.swath >= -1 /\ d.pos \in Nat /\ d.base \in Int

Shapes ==
  /\ req = [f \in ReqFields |-> req[f]] /\ \A f \in ReqFields \ {"rc"} : req[f] \in Int
  /\ DecoderShape(dec)
  /\ sent \in 0 .. PageHeight
  /\ out = [i \in DOMAIN out |-> out[i]]
  /\ \A i \in DOMAIN out : out[i] \in Colours
  /\ pc \in InCall \cup {"page", "done"}

StripesInv ==
  /\ page \in Pages
  /\ \/ pc \in {"setup", "info"} /\ Fresh /\ (pc = "info" => HasHeader(page))
     \/ pc = "done" /\ c = [scale |-> "unknown"] /\ ~ HasHeader(page) /\ req.rc = "error"
     \/ /\ Known /\ c = OutputProperties(page) /\ HasHeader(page)
        /\ Shapes /\ (GoesOn \/ Stopped)

(***************************************************************************)
(* The output properties of a page.                                        *)
(***************************************************************************)

(* The width of the turned image.                                          *)
TurnedW == IF Sideways(c.rot) THEN c.sampH ELSE c.sampW

(* wprint_image_set_output_properties, field by field.                     *)
LEMMA PropertiesAre ==
  ASSUME c = OutputProperties(page)
  PROVE  /\ c.rot = Rotation(page)
         /\ c.printW = PrintableWidth(page) /\ c.printH = PrintableHeight(page)
         /\ c.sample = SampleSize(page)
         /\ c.sampW = page.w \div c.sample /\ c.sampH = page.h \div c.sample
         /\ c.srcH = IF Sideways(c.rot) THEN c.sampW ELSE c.sampH
         /\ c.outW = IF c.scale = "none" THEN Least(c.printW, TurnedW) ELSE TurnedW
         /\ c.scale \in {"none", "autoScale", "autoFit"}
         /\ c.scale = "none" =>
              /\ c.mode = "none" /\ c.scaledW = TurnedW /\ c.scaledH = c.srcH
              /\ \/ {"autoScale", "autoFit"} \cap page.flags = {}
                 \/ TargetReached(page, TurnedW, c.srcH)
         /\ c.scale # "none" =>
              /\ c.scale \in page.flags
              /\ "autoScale" \in page.flags => c.scale = "autoScale"
              /\ <<c.scaledW, c.scaledH>> = ScaledSize(page, TurnedW, c.srcH)
              /\ c.mode = ScaleMode(TurnedW, c.srcH, c.scaledW, c.scaledH)
  <1> DEFINE sample  == SampleSize(page)
             size    == Turned(page, page.w \div sample, page.h \div sample)
             w       == size[1]
             h       == size[2]
             wanted  == {"autoScale", "autoFit"} \cap page.flags
             scale   == IF wanted # {} /\ ~ TargetReached(page, w, h)
                        THEN CHOOSE f \in wanted : "autoScale" \in wanted => f = "autoScale"
                        ELSE "none"
             scaled  == IF scale = "none" THEN size ELSE ScaledSize(page, w, h)
             mode    == IF scale = "none" THEN "none"
                        ELSE ScaleMode(w, h, scaled[1], scaled[2])
  <1>1. /\ c.rot = Rotation(page)
        /\ c.printW = PrintableWidth(page) /\ c.printH = PrintableHeight(page)
        /\ c.sample = sample
        /\ c.sampW = page.w \div sample /\ c.sampH = page.h \div sample
        /\ c.srcH = h
        /\ c.outW = (IF scale = "none" THEN Least(PrintableWidth(page), w) ELSE w)
        /\ c.scale = scale /\ c.mode = mode
        /\ c.scaledW = scaled[1] /\ c.scaledH = scaled[2]
    BY DEF OutputProperties
  <1>2. /\ size = (IF Sideways(c.rot) THEN <<c.sampH, c.sampW>> ELSE <<c.sampW, c.sampH>>)
    <2> HIDE DEF sample
    <2> QED  BY <1>1 DEF Turned
  <1>3. w = TurnedW /\ h = (IF Sideways(c.rot) THEN c.sampW ELSE c.sampH)
    <2> HIDE DEF size
    <2> QED  BY <1>2 DEF TurnedW
  <1> HIDE DEF size
  <1>4. wanted # {} => /\ (CHOOSE f \in wanted : "autoScale" \in wanted => f = "autoScale")
                             \in wanted
                       /\ "autoScale" \in wanted =>
                            (CHOOSE f \in wanted : "autoScale" \in wanted => f = "autoScale")
                              = "autoScale"
    <2> SUFFICES ASSUME wanted # {}
                 PROVE  \E f \in wanted : "autoScale" \in wanted => f = "autoScale"
      OBVIOUS
    <2> QED  OBVIOUS
  <1>5. /\ scale \in {"none", "autoScale", "autoFit"}
        /\ scale # "none" => scale \in wanted /\ ("autoScale" \in wanted => scale = "autoScale")
        /\ scale = "none" => wanted = {} \/ TargetReached(page, w, h)
    BY <1>4
  <1>6. ScaledSize(page, w, h) = <<ScaledSize(page, w, h)[1], ScaledSize(page, w, h)[2]>>
    BY DEF ScaledSize
  <1>7. CASE scale = "none"
    BY <1>1, <1>3, <1>5, <1>7
  <1>8. CASE scale # "none"
    <2> HIDE DEF scale
    <2> QED  BY <1>1, <1>3, <1>5, <1>6, <1>8
  <1> QED  BY <1>7, <1>8

(* The cuts and the paddings, in these terms.                            *)
LEMMA PlacesAre ==
  ASSUME c = OutputProperties(page)
  PROVE  LET x == Across(page, c.scaledW, c.scale)
             y == Down(page, c.scaledH, c.scale)
             m == Paddings(page)
         IN /\ c.colOff = x.cut /\ c.rowOff = y.cut
            /\ c.left = m.left + x.before /\ c.right = m.right + x.after
            /\ c.top = m.top + y.before /\ c.bottom = m.bottom + y.after
  BY DEF OutputProperties

(* A length scaled from s to t: it grows if t is larger, else shrinks.     *)
LEMMA Scaling1 ==
  ASSUME NEW t \in Nat \ {0}, NEW s \in Nat \ {0}, NEW v \in Nat \ {0}
  PROVE  /\ t * v \in Int /\ (t * v) \div s \in Int
         /\ s <= t => v <= (t * v) \div s
         /\ t <= s => (t * v) \div s <= v
         /\ \A q \in Nat : q * s <= t * v => q <= (t * v) \div s
         /\ \A q \in Nat : t * v < q * s => (t * v) \div s < q
         /\ \A q \in Nat : t * v <= q * s => (t * v) \div s <= q
  <1>1. t * v \in Int /\ (t * v) \div s \in Int
    BY Division
  <1>2. \A q \in Nat : q * s <= t * v => q <= (t * v) \div s
    <2> TAKE q \in Nat
    <2>1. q * s = s * q
      OBVIOUS
    <2> QED  BY <1>1, <2>1, QuotientAtLeast
  <1>3. \A q \in Nat : t * v < q * s => (t * v) \div s < q
    <2> TAKE q \in Nat
    <2>1. q * s = s * q
      OBVIOUS
    <2> QED  BY <1>1, <2>1, QuotientBelow
  <1>4. \A q \in Nat : t * v <= q * s => (t * v) \div s <= q
    <2> SUFFICES ASSUME NEW q \in Nat, t * v <= q * s PROVE (t * v) \div s <= q
      OBVIOUS
    <2>1. (q + 1) * s = q * s + s /\ q * s \in Int
      OBVIOUS
    <2>2. t * v < (q + 1) * s
      BY <1>1, <2>1
    <2>3. (t * v) \div s < q + 1
      BY <1>3, <2>2
    <2> QED  BY <1>1, <2>3
  <1>5. s <= t => v * s <= t * v
    <2> SUFFICES ASSUME s <= t PROVE v * s <= t * v
      OBVIOUS
    <2>1. s * v <= t * v /\ s * v = v * s
      BY Grows
    <2> QED  BY <2>1
  <1>6. t <= s => t * v <= v * s
    <2> SUFFICES ASSUME t <= s PROVE t * v <= v * s
      OBVIOUS
    <2>1. t * v <= s * v /\ s * v = v * s
      BY Grows
    <2> QED  BY <2>1
  <1> QED  BY <1>1, <1>2, <1>3, <1>4, <1>5, <1>6

(* The sizes of a page, and of an image on it.                             *)
LEMMA SizesAre ==
  ASSUME page \in Pages, c = OutputProperties(page)
  PROVE  /\ page.w \in Nat /\ page.h \in Nat /\ page.width \in Nat /\ page.height \in Nat
         /\ page.top \in Nat /\ page.left \in Nat /\ page.right \in Nat /\ page.bottom \in Nat
         /\ c.sample \in Nat \ {0}
         /\ c.printW \in Nat \ {0} /\ c.printH \in Nat \ {0}
         /\ c.sampW \in Nat \ {0} /\ c.sampH \in Nat \ {0}
         /\ c.sampW <= MinDecodeMem /\ c.sampH <= MinDecodeMem
         /\ c.srcH \in Nat \ {0} /\ TurnedW \in Nat \ {0}
         /\ c.outW \in Nat \ {0} /\ c.outW <= TurnedW
         /\ c.scaledW \in Nat \ {0} /\ c.scaledH \in Nat \ {0}
         /\ c.mode = "up" => c.scaledH > 1
         /\ c.scale = "autoScale" => c.printH >= StripHeight
  <1>0. Drawable(page)
    BY PageAssumption
  <1>1. /\ page.w \in Nat /\ page.h \in Nat /\ page.width \in Nat /\ page.height \in Nat
        /\ page.top \in Nat /\ page.left \in Nat /\ page.right \in Nat /\ page.bottom \in Nat
        /\ SampleSize(page) \in Nat \ {0}
        /\ c.printW > 0 /\ c.printH > 0 /\ c.sampW > 0 /\ c.sampH > 0
        /\ c.scaledW > 0 /\ c.scaledH > 0
        /\ c.scale = "autoScale" => c.printH >= StripHeight
        /\ c.mode = "up" => c.scaledH > 1
        /\ c.sampW <= MinDecodeMem /\ c.sampH <= MinDecodeMem
    BY <1>0 DEF Drawable
  <1>2. c.printW \in Int /\ c.printH \in Int
    BY <1>1, PropertiesAre DEF PrintableWidth, PrintableHeight, Margins
  <1>3. c.sampW \in Int /\ c.sampH \in Int
    BY <1>1, PropertiesAre, Division
  <1>4. /\ c.srcH \in Nat \ {0} /\ TurnedW \in Nat \ {0}
    BY <1>1, <1>3, PropertiesAre DEF TurnedW
  <1>5. c.outW \in Nat \ {0} /\ c.outW <= TurnedW
    BY <1>1, <1>2, <1>4, PropertiesAre DEF Least
  <1>6. c.scaledW \in Int /\ c.scaledH \in Int
    <2>1. CASE c.scale = "none"
      BY <2>1, <1>4, PropertiesAre
    <2>2. CASE c.scale # "none"
      <3> DEFINE w == TurnedW
                 h == c.srcH
                 pw == c.printW
                 ph == c.printH
      <3>1. (ph * w) \div h \in Int /\ (pw * h) \div w \in Int
        BY <1>1, <1>2, <1>4, Scaling1
      <3>2. \/ <<c.scaledW, c.scaledH>> = <<(ph * w) \div h, ph>>
            \/ <<c.scaledW, c.scaledH>> = <<pw, (pw * h) \div w>>
        BY <2>2, PropertiesAre DEF ScaledSize
      <3> HIDE DEF w, h
      <3> QED  BY <1>2, <3>1, <3>2
    <2> QED  BY <2>1, <2>2
  <1> QED  BY <1>1, <1>2, <1>3, <1>4, <1>5, <1>6, PropertiesAre

(* An image to fill the page covers it, one to fit does not exceed it, and *)
(* no image is enlarged along one axis and reduced along the other.        *)
LEMMA ScaledIs ==
  ASSUME page \in Pages, c = OutputProperties(page), c.scale # "none"
  PROVE  /\ c.mode \in {"up", "down"}
         /\ c.mode = "up" => c.srcH <= c.scaledH
         /\ c.mode = "down" => c.scaledH <= c.srcH
         /\ c.scale = "autoScale" => c.scaledW >= c.printW /\ c.scaledH >= c.printH
         /\ c.scale = "autoFit" => c.scaledW <= c.printW /\ c.scaledH <= c.printH
         /\ c.scaledW = c.printW \/ c.scaledH = c.printH
  <1> DEFINE w == TurnedW
             h == c.srcH
             pw == c.printW
             ph == c.printH
             sw == (ph * w) \div h
             sh == (pw * h) \div w
  <1>0. /\ w \in Nat \ {0} /\ h \in Nat \ {0} /\ pw \in Nat \ {0} /\ ph \in Nat \ {0}
        /\ c.scaledW \in Nat \ {0} /\ c.scaledH \in Nat \ {0}
    BY SizesAre
  <1>1. /\ ph * w \in Int /\ sw \in Int /\ (h <= ph => w <= sw) /\ (ph <= h => sw <= w)
        /\ pw * h <= ph * w => pw <= sw
        /\ ph * w < pw * h => sw < pw
    BY <1>0, Scaling1
  <1>2. /\ pw * h \in Int /\ sh \in Int /\ (w <= pw => h <= sh) /\ (pw <= w => sh <= h)
        /\ ph * w <= pw * h => ph <= sh
        /\ pw * h <= ph * w => sh <= ph
    BY <1>0, Scaling1
  <1>3. /\ c.scale \in {"autoScale", "autoFit"}
        /\ c.scale \in page.flags /\ ("autoScale" \in page.flags => c.scale = "autoScale")
        /\ <<c.scaledW, c.scaledH>> = ScaledSize(page, w, h)
        /\ c.mode = ScaleMode(w, h, c.scaledW, c.scaledH)
        /\ PrintableWidth(page) = pw /\ PrintableHeight(page) = ph
    BY PropertiesAre
  <1>4. ScaledSize(page, w, h) = IF IF c.scale = "autoScale" THEN pw * h <= ph * w
                                    ELSE ph * w < pw * h
                                 THEN <<sw, ph>> ELSE <<pw, sh>>
    <2> HIDE DEF w, h
    <2>1. ("autoScale" \in page.flags) <=> c.scale = "autoScale"
      BY <1>3
    <2> QED  BY <1>0, <1>1, <1>2, <1>3, <2>1 DEF ScaledSize
  <1>5. \/ /\ c.scaledW = sw /\ c.scaledH = ph
           /\ c.scale = "autoScale" => pw * h <= ph * w
           /\ c.scale = "autoFit" => ph * w < pw * h
        \/ /\ c.scaledW = pw /\ c.scaledH = sh
           /\ c.scale = "autoScale" => ph * w < pw * h
           /\ c.scale = "autoFit" => pw * h <= ph * w
    <2> HIDE DEF w, h, sw, sh, pw, ph
    <2> DEFINE a == pw * h
               b == ph * w
    <2>1. a \in Int /\ b \in Int
      BY <1>1, <1>2
    <2> HIDE DEF a, b
    <2>2. CASE IF c.scale = "autoScale" THEN a <= b ELSE b < a
      <3>1. <<c.scaledW, c.scaledH>> = <<sw, ph>>
        BY <1>3, <1>4, <2>2 DEF a, b
      <3>2. \/ c.scale = "autoScale" /\ a <= b
            \/ c.scale = "autoFit" /\ b < a
        BY <1>3, <2>2
      <3> QED  BY <3>1, <3>2 DEF a, b
    <2>3. CASE ~ IF c.scale = "autoScale" THEN a <= b ELSE b < a
      <3>1. <<c.scaledW, c.scaledH>> = <<pw, sh>>
        BY <1>3, <1>4, <2>3 DEF a, b
      <3>2. \/ c.scale = "autoScale" /\ b < a
            \/ c.scale = "autoFit" /\ a <= b
        BY <1>3, <2>1, <2>3
      <3> QED  BY <3>1, <3>2 DEF a, b
    <2> QED  BY <2>2, <2>3
  <1> DEFINE a == pw * h
             b == ph * w
  <1>6. /\ a \in Int /\ b \in Int /\ sw \in Int /\ sh \in Int
        /\ (h <= ph => w <= sw) /\ (ph <= h => sw <= w)
        /\ (w <= pw => h <= sh) /\ (pw <= w => sh <= h)
        /\ (a <= b => pw <= sw) /\ (b < a => sw < pw)
        /\ (b <= a => ph <= sh) /\ (a <= b => sh <= ph)
        /\ \/ /\ c.scaledW = sw /\ c.scaledH = ph
              /\ c.scale = "autoScale" => a <= b
              /\ c.scale = "autoFit" => b < a
           \/ /\ c.scaledW = pw /\ c.scaledH = sh
              /\ c.scale = "autoScale" => b < a
              /\ c.scale = "autoFit" => a <= b
    BY <1>1, <1>2, <1>5
  <1> HIDE DEF a, b, sw, sh, w, h, pw, ph
  <1>7. /\ c.scale = "autoScale" => c.scaledW >= pw /\ c.scaledH >= ph
        /\ c.scale = "autoFit" => c.scaledW <= pw /\ c.scaledH <= ph
        /\ c.scaledW = pw \/ c.scaledH = ph
    BY <1>0, <1>6
  <1>8. /\ c.mode \in {"up", "down"}
        /\ c.mode = "up" => h <= c.scaledH
        /\ c.mode = "down" => c.scaledH <= h
    BY <1>0, <1>3, <1>6 DEF ScaleMode
  <1> QED  BY <1>7, <1>8 DEF h, pw, ph

(* Where the image goes along one axis.                                    *)
Places(size, area) ==
  LET d == IF size > area THEN size - area ELSE area - size
  IN IF size > area
     THEN {[cut |-> k, before |-> 0, after |-> 0] : k \in {0, d, d \div 2}}
     ELSE {[cut |-> 0, before |-> d \div 2, after |-> d \div 2 + (d % 2)],
           [cut |-> 0, before |-> d, after |-> 0], [cut |-> 0, before |-> 0, after |-> d]}

(* What is cut off and what is padded make up the difference.            *)
LEMMA PlaceFits ==
  ASSUME NEW size \in Nat, NEW area \in Nat, NEW r \in Places(size, area)
  PROVE  /\ r.cut \in Nat /\ r.before \in Nat /\ r.after \in Nat
         /\ size <= area => r.cut = 0 /\ r.before + r.after = area - size
         /\ area < size => r.before = 0 /\ r.after = 0 /\ r.cut <= size - area
  <1>1. CASE size > area
    <2> DEFINE d == size - area
    <2>1. d \in Nat /\ d \div 2 \in Nat /\ d \div 2 <= d
      BY <1>1
    <2>2. r \in {[cut |-> k, before |-> 0, after |-> 0] : k \in {0, d, d \div 2}}
      BY <1>1 DEF Places
    <2>3. d = size - area
      OBVIOUS
    <2> HIDE DEF d
    <2> QED  BY <1>1, <2>1, <2>2, <2>3
  <1>2. CASE ~ size > area
    <2> DEFINE d == area - size
    <2>1. d \in Nat /\ d \div 2 \in Nat /\ d \div 2 + (d \div 2 + (d % 2)) = d
          /\ d % 2 \in Nat
      BY <1>2
    <2>2. r \in {[cut |-> 0, before |-> d \div 2, after |-> d \div 2 + (d % 2)],
                 [cut |-> 0, before |-> d, after |-> 0], [cut |-> 0, before |-> 0, after |-> d]}
      BY <1>2 DEF Places
    <2>3. d = area - size
      OBVIOUS
    <2> HIDE DEF d
    <2>4. r.cut = 0 /\ r.before \in Nat /\ r.after \in Nat /\ r.before + r.after = d
      BY <2>1, <2>2
    <2> QED  BY <1>2, <2>3, <2>4
  <1> QED  BY <1>1, <1>2

(* The margins turn with the content, and all that is done to them keeps   *)
(* their sums.                                                             *)
LEMMA MarginsTurn ==
  ASSUME page \in Pages, c = OutputProperties(page)
  PROVE  LET m == Paddings(page)
         IN /\ m.left \in Nat /\ m.right \in Nat /\ m.top \in Nat /\ m.bottom \in Nat
            /\ m.left + c.printW + m.right = page.width
            /\ m.top + c.printH + m.bottom = page.height
            /\ c.rot \in {0, 90, 180, 270}
  <1>0. /\ page.width \in Nat /\ page.height \in Nat
        /\ page.top \in Nat /\ page.left \in Nat /\ page.right \in Nat /\ page.bottom \in Nat
        /\ c.rot = Rotation(page)
        /\ c.printW = PrintableWidth(page) /\ c.printH = PrintableHeight(page)
        /\ c.printW \in Nat /\ c.printH \in Nat
    BY SizesAre, PropertiesAre
  <1>1. LET m == Margins(page)
        IN /\ m.left \in Nat /\ m.right \in Nat /\ m.top \in Nat /\ m.bottom \in Nat
           /\ c.printW = page.width - (m.left + m.right)
           /\ c.printH = page.height - (m.top + m.bottom)
    BY <1>0 DEF Margins, PrintableWidth, PrintableHeight
  <1>2. c.rot \in {0, 90, 180, 270}
    <2>1. FrontRotation(page) \in {0, 90}
      BY DEF FrontRotation
    <2> QED  BY <1>0, <2>1 DEF Rotation
  <1>3. Paddings(page) \in {Margins(page),
             [top |-> Margins(page).bottom, left |-> Margins(page).right,
              right |-> Margins(page).left, bottom |-> Margins(page).top]}
    BY DEF Paddings
  <1> QED  BY <1>0, <1>1, <1>2, <1>3

(* The area of the image is what its margins leave, or smaller and padded; *)
(* what is cut off the image leaves the area.                              *)
LEMMA LayoutIs ==
  ASSUME page \in Pages, c = OutputProperties(page)
  PROVE  /\ c.rot \in {0, 90, 180, 270}
         /\ AreaWidth \in Nat \ {0} /\ AreaHeight \in Nat \ {0}
         /\ AreaWidth = Least(c.scaledW, c.printW)
         /\ AreaHeight = Least(c.scaledH, c.printH)
         /\ PadLeft \in Nat /\ PadTop \in Nat /\ PadRight \in Nat /\ PadBottom \in Nat
         /\ PageWidth = PadLeft + AreaWidth + PadRight
         /\ PageHeight = PadTop + AreaHeight + PadBottom
         /\ page.padAll => PageWidth = page.width /\ PageHeight = page.height
         /\ ~ page.padAll => PadRight = 0 /\ PadBottom = 0
         /\ c.rowOff \in Nat /\ c.colOff \in Nat
         /\ c.scale # "none" => c.rowOff = 0 /\ c.colOff = 0 /\ c.outW = TurnedW
         /\ c.scale = "none" => /\ AreaWidth = c.outW
                                /\ c.rowOff + AreaHeight <= c.srcH
                                /\ c.colOff + c.outW <= TurnedW
  <1> DEFINE x == Across(page, c.scaledW, c.scale)
             y == Down(page, c.scaledH, c.scale)
             m == Paddings(page)
  <1>1. /\ c.colOff = x.cut /\ c.rowOff = y.cut
        /\ c.left = m.left + x.before /\ c.right = m.right + x.after
        /\ c.top = m.top + y.before /\ c.bottom = m.bottom + y.after
    BY PlacesAre
  <1>2. /\ m.left \in Nat /\ m.right \in Nat /\ m.top \in Nat /\ m.bottom \in Nat
        /\ m.left + c.printW + m.right = page.width
        /\ m.top + c.printH + m.bottom = page.height
        /\ c.rot \in {0, 90, 180, 270}
    BY MarginsTurn
  <1>3. /\ c.scaledW \in Nat \ {0} /\ c.scaledH \in Nat \ {0}
        /\ c.printW \in Nat \ {0} /\ c.printH \in Nat \ {0}
        /\ c.outW \in Nat \ {0} /\ TurnedW \in Nat \ {0} /\ c.srcH \in Nat \ {0}
        /\ c.printW = PrintableWidth(page) /\ c.printH = PrintableHeight(page)
        /\ c.scale \in {"none", "autoScale", "autoFit"}
        /\ c.outW = IF c.scale = "none" THEN Least(c.printW, TurnedW) ELSE TurnedW
        /\ c.scale = "none" => c.scaledW = TurnedW /\ c.scaledH = c.srcH
        /\ c.scale = "autoScale" => c.scaledW >= c.printW /\ c.scaledH >= c.printH
        /\ c.scale = "autoFit" => c.scaledW <= c.printW /\ c.scaledH <= c.printH
    BY SizesAre, PropertiesAre, ScaledIs
  <1>4. /\ x.cut \in Nat /\ x.before \in Nat /\ x.after \in Nat
        /\ c.scale = "autoScale" => x.cut = 0 /\ x.before = 0 /\ x.after = 0
        /\ c.scale # "autoScale" =>
             /\ c.scaledW <= c.printW => x.cut = 0 /\ x.before + x.after = c.printW - c.scaledW
             /\ c.printW < c.scaledW => /\ x.before = 0 /\ x.after = 0
                                        /\ x.cut <= c.scaledW - c.printW
    <2>1. CASE c.scale = "autoScale"
      BY <2>1 DEF Across, Nowhere
    <2>2. CASE c.scale # "autoScale"
      <3>1. x \in Places(c.scaledW, c.printW)
        BY <1>3, <2>2 DEF Across, Place, Places, Greatest
      <3> HIDE DEF x
      <3> QED  BY <1>3, <2>2, <3>1, PlaceFits
    <2> QED  BY <2>1, <2>2
  <1>5. /\ y.cut \in Nat /\ y.before \in Nat /\ y.after \in Nat
        /\ c.scale = "autoScale" => y.cut = 0 /\ y.before = 0 /\ y.after = 0
        /\ c.scale # "autoScale" =>
             /\ c.scaledH <= c.printH => y.cut = 0 /\ y.before + y.after = c.printH - c.scaledH
             /\ c.printH < c.scaledH => /\ y.before = 0 /\ y.after = 0
                                        /\ y.cut <= c.scaledH - c.printH
    <2>1. CASE c.scale = "autoScale"
      BY <2>1 DEF Down, Nowhere
    <2>2. CASE c.scale # "autoScale"
      <3>1. y \in Places(c.scaledH, c.printH)
        BY <1>3, <2>2 DEF Down, Place, Places, Greatest
      <3> HIDE DEF y
      <3> QED  BY <1>3, <2>2, <3>1, PlaceFits
    <2> QED  BY <2>1, <2>2
  <1> HIDE DEF x, y, m
  <1>6. /\ AreaWidth = Least(c.scaledW, c.printW) /\ AreaHeight = Least(c.scaledH, c.printH)
        /\ AreaWidth \in Nat \ {0} /\ AreaHeight \in Nat \ {0}
        /\ c.scale = "none" => AreaWidth = c.outW
    BY <1>3 DEF AreaWidth, AreaHeight, Least
  <1>7. /\ c.left \in Nat /\ c.right \in Nat /\ c.top \in Nat /\ c.bottom \in Nat
        /\ c.left + AreaWidth + c.right = page.width
        /\ c.top + AreaHeight + c.bottom = page.height
    <2>1. /\ x.before \in Nat /\ x.after \in Nat
          /\ x.before + AreaWidth + x.after = c.printW
      BY <1>3, <1>4, <1>6 DEF Least
    <2>2. /\ y.before \in Nat /\ y.after \in Nat
          /\ y.before + AreaHeight + y.after = c.printH
      BY <1>3, <1>5, <1>6 DEF Least
    <2>3. c.left \in Nat /\ c.right \in Nat /\ c.left + AreaWidth + c.right = page.width
      BY <1>1, <1>2, <1>3, <1>6, <2>1
    <2>4. c.top \in Nat /\ c.bottom \in Nat /\ c.top + AreaHeight + c.bottom = page.height
      BY <1>1, <1>2, <1>3, <1>6, <2>2
    <2> QED  BY <2>3, <2>4
  <1>8. /\ PadLeft \in Nat /\ PadTop \in Nat /\ PadRight \in Nat /\ PadBottom \in Nat
        /\ page.padAll => PageWidth = page.width /\ PageHeight = page.height
        /\ ~ page.padAll => PadRight = 0 /\ PadBottom = 0
    BY <1>6, <1>7 DEF PadLeft, PadTop, PadRight, PadBottom, PageWidth, PageHeight
  <1>9. /\ c.rowOff \in Nat /\ c.colOff \in Nat
        /\ c.scale # "none" => c.rowOff = 0 /\ c.colOff = 0 /\ c.outW = TurnedW
        /\ c.scale = "none" => /\ c.rowOff + AreaHeight <= c.srcH
                               /\ c.colOff + c.outW <= TurnedW
    BY <1>1, <1>3, <1>4, <1>5, <1>6 DEF Least
  <1> QED  BY <1>2, <1>6, <1>8, <1>9 DEF PageWidth, PageHeight

(* PageIsFilled, and the shape of the properties.                          *)
LEMMA FilledIs ==
  ASSUME page \in Pages, c = OutputProperties(page)
  PROVE  PageIsFilled
  <1>1. /\ c.scaledW \in Nat \ {0} /\ c.scaledH \in Nat \ {0}
        /\ c.printW \in Nat \ {0} /\ c.printH \in Nat \ {0}
        /\ c.printW = PrintableWidth(page) /\ c.printH = PrintableHeight(page)
    BY SizesAre, PropertiesAre
  <1>2. ASSUME c.scale = "none", "autoScale" \in page.flags, "autoFit" \notin page.flags
        PROVE  c.scaledW >= c.printW /\ c.scaledH >= c.printH
    <2>1. /\ TargetReached(page, c.scaledW, c.scaledH)
      BY <1>2, PropertiesAre
    <2> QED  BY <1>1, <1>2, <2>1 DEF TargetReached
  <1>3. c.scale # "none" /\ "autoScale" \in page.flags => c.scale = "autoScale"
    BY PropertiesAre
  <1> QED  BY <1>2, <1>3, LayoutIs, ScaledIs DEF PageIsFilled

(***************************************************************************)
(* The rows of the source a row of the output is made of.                  *)
(***************************************************************************)

(* n / d rounded up.                                                       *)
RoundedUp(n, d) == n \div d + Rest(n, d)

(* It is the least number whose product is not exceeded.                 *)
LEMMA RoundingUp ==
  ASSUME NEW n \in Int, NEW d \in Nat \ {0}
  PROVE  /\ RoundedUp(n, d) \in Int /\ d * RoundedUp(n, d) \in Int
         /\ n <= d * RoundedUp(n, d) /\ d * RoundedUp(n, d) < n + d
         /\ n \div d <= RoundedUp(n, d) /\ RoundedUp(n, d) <= n \div d + 1
  <1> DEFINE q == n \div d
             p == d * q
             m == n % d
  <1>1. /\ q \in Int /\ p \in Int /\ m \in Int /\ n = p + m /\ 0 <= m /\ m < d
        /\ d * (q + 1) = p + d
    BY Division
  <1>2. RoundedUp(n, d) = IF m = 0 THEN q ELSE q + 1
    BY <1>1 DEF RoundedUp, Rest
  <1> HIDE DEF p, q, m
  <1>3. CASE m = 0
    <2>1. RoundedUp(n, d) = q
      BY <1>2, <1>3
    <2> QED  BY <1>1, <1>3, <2>1 DEF p, q
  <1>4. CASE m # 0
    <2>1. RoundedUp(n, d) = q + 1
      BY <1>2, <1>4
    <2>2. d * RoundedUp(n, d) = p + d
      BY <1>1, <2>1
    <2> QED  BY <1>1, <1>4, <2>1, <2>2 DEF q
  <1> QED  BY <1>3, <1>4

(* It grows with what is divided.                                        *)
LEMMA RoundedUpGrows ==
  ASSUME NEW a \in Int, NEW b \in Int, NEW d \in Nat \ {0}, a <= b
  PROVE  RoundedUp(a, d) <= RoundedUp(b, d)
  <1> DEFINE u == RoundedUp(a, d)
             v == RoundedUp(b, d)
  <1>1. u \in Int /\ v \in Int /\ d * u < a + d /\ b <= d * v /\ d * u \in Int /\ d * v \in Int
    BY RoundingUp
  <1>2. d * (v + 1) = d * v + d
    BY <1>1
  <1>3. d * u < d * (v + 1)
    BY <1>1, <1>2
  <1> HIDE DEF u, v
  <1>4. u < v + 1
    BY <1>1, <1>3, Smaller
  <1> QED  BY <1>1, <1>4 DEF u, v

(* It is the least number with a product that reaches n.                   *)
LEMMA RoundedUpIs ==
  ASSUME NEW n \in Int, NEW d \in Nat \ {0}, NEW q \in Int
  PROVE  /\ n <= d * q => RoundedUp(n, d) <= q
         /\ d * q < n => q < RoundedUp(n, d)
  <1> DEFINE u == RoundedUp(n, d)
  <1>1. u \in Int /\ n <= d * u /\ d * u < n + d /\ d * u \in Int /\ d * q \in Int
    BY RoundingUp
  <1>2. d * (q + 1) = d * q + d
    OBVIOUS
  <1> HIDE DEF u
  <1>3. ASSUME n <= d * q PROVE u <= q
    <2>1. d * u < d * (q + 1)
      BY <1>1, <1>2, <1>3
    <2>2. u < q + 1
      BY <1>1, <2>1, Smaller
    <2> QED  BY <1>1, <2>2
  <1>4. ASSUME d * q < n PROVE q < u
    <2>1. d * q < d * u
      BY <1>1, <1>4
    <2> QED  BY <1>1, <2>1, Smaller
  <1> QED  BY <1>3, <1>4 DEF u

-----------------------------------------------------------------------------
(* The factors of the scaler: output row k begins at row k * Num / Den of  *)
(* the source, and ends with row (k + Extra) * Num / Den, rounded up,    *)
(* less Extra.                                                             *)
Num == IF c.mode = "up" THEN c.srcH - 1 ELSE c.srcH
Den == IF c.mode = "up" THEN c.scaledH - 1 ELSE c.scaledH
Extra == IF c.mode = "up" THEN 0 ELSE 1

(* Both ways to scale, in the same terms: the rows for output row k are  *)
(* from k * Num / Den on, and up to (k + Extra) * Num / Den.             *)
LEMMA FactorsAre ==
  ASSUME page \in Pages, c = OutputProperties(page), c.scale # "none"
  PROVE  /\ Num \in Nat /\ Den \in Nat \ {0} /\ Extra \in {0, 1}
         /\ Num = c.srcH - 1 + Extra /\ Den = c.scaledH - 1 + Extra
         /\ c.srcH \in Nat \ {0} /\ c.scaledH \in Nat \ {0}
         /\ \A k \in Int : /\ FirstRow(k) = (k * Num) \div Den
                   /\ LastRow(k) = Least(RoundedUp((k + Extra) * Num, Den) - Extra, c.srcH - 1)
  <1>1. /\ c.srcH \in Nat \ {0} /\ c.scaledH \in Nat \ {0}
        /\ c.mode \in {"up", "down"} /\ (c.mode = "up" => c.scaledH > 1)
    BY SizesAre, ScaledIs
  <1>2. /\ Num \in Nat /\ Den \in Nat \ {0} /\ Extra \in {0, 1}
        /\ Num = c.srcH - 1 + Extra /\ Den = c.scaledH - 1 + Extra
    BY <1>1 DEF Num, Den, Extra
  <1>3. ASSUME NEW k \in Int
        PROVE  /\ FirstRow(k) = (k * Num) \div Den
               /\ LastRow(k) = Least(RoundedUp((k + Extra) * Num, Den) - Extra, c.srcH - 1)
    <2>1. CASE c.mode = "up"
      <3>1. Num = c.srcH - 1 /\ Den = c.scaledH - 1 /\ Extra = 0
        BY <2>1 DEF Num, Den, Extra
      <3>2. LastRow(k) = Least(RoundedUp(k * Num, Den), c.srcH - 1)
        <4>1. LastRow(k) = Least(RoundedUp(k * (c.srcH - 1), c.scaledH - 1), c.srcH - 1)
          BY <2>1, Zenon DEF LastRow, RoundedUp
        <4> QED  BY <3>1, <4>1, Zenon
      <3>3. k + Extra = k /\ k * Num \in Int
        BY <1>2, <3>1
      <3>4. RoundedUp(k * Num, Den) - Extra = RoundedUp(k * Num, Den)
        <4> DEFINE n == k * Num
        <4>1. n \in Int
          BY <3>3
        <4> HIDE DEF n
        <4>2. RoundedUp(n, Den) \in Int
          BY <1>2, <4>1, RoundingUp
        <4> QED  BY <3>1, <4>2 DEF n
      <3> QED  BY <2>1, <3>1, <3>2, <3>3, <3>4 DEF FirstRow
    <2>2. CASE c.mode # "up"
      <3>1. Num = c.srcH /\ Den = c.scaledH /\ Extra = 1
        BY <2>2 DEF Num, Den, Extra
      <3> DEFINE n == (k + 1) * c.srcH
      <3>2. n \in Int /\ n \div Den \in Int /\ Rest(n, Den) \in Int
        BY <1>1, <1>2, Division DEF Rest
      <3>3. LastRow(k) = Least(n \div Den - 1 + Rest(n, Den), c.srcH - 1)
        BY <2>2, <3>1 DEF LastRow
      <3> HIDE DEF n
      <3>4. n \div Den - 1 + Rest(n, Den) = RoundedUp(n, Den) - 1
        BY <3>2 DEF RoundedUp
      <3> QED  BY <2>2, <3>1, <3>3, <3>4 DEF FirstRow, n
    <2> QED  BY <2>1, <2>2
  <1> QED  BY <1>1, <1>2, <1>3

(* The rows of the source for an output row are rows of it, they grow with *)
(* the output row, and no other row weighs in it.                          *)
LEMMA RowsAre ==
  ASSUME page \in Pages, c = OutputProperties(page), c.scale # "none",
         NEW k \in 0 .. c.scaledH - 1
  PROVE  /\ FirstRow(k) \in 0 .. c.srcH - 1 /\ LastRow(k) \in 0 .. c.srcH - 1
         /\ LastRow(k) = RoundedUp((k + Extra) * Num, Den) - Extra
         /\ SourceRows(c.mode, c.srcH, c.scaledH, k) \subseteq FirstRow(k) .. LastRow(k)
  <1>1. /\ Num \in Nat /\ Den \in Nat \ {0} /\ Extra \in {0, 1}
        /\ Num = c.srcH - 1 + Extra /\ Den = c.scaledH - 1 + Extra
        /\ c.srcH \in Nat \ {0} /\ c.scaledH \in Nat \ {0}
    BY FactorsAre
  <1>r. /\ FirstRow(k) = (k * Num) \div Den
        /\ LastRow(k) = Least(RoundedUp((k + Extra) * Num, Den) - Extra, c.srcH - 1)
    BY FactorsAre
  <1> DEFINE t == k + Extra
             a == k * Num
             b == t * Num
             u == RoundedUp(b, Den)
  <1>t. /\ t \in Int /\ k <= t /\ t <= Den /\ t = k + Extra
        /\ LastRow(k) = Least(u - Extra, c.srcH - 1)
    BY <1>1, <1>r
  <1> HIDE DEF t
  <1>2. a \in Nat /\ b \in Nat /\ a <= b
    <2>1. a <= b /\ a \in Int /\ b \in Int
      BY <1>1, <1>t, Grows
    <2>2. 0 * Num <= k * Num /\ 0 * Num = 0
      BY <1>1, Grows
    <2> QED  BY <2>1, <2>2
  <1>3. b <= Den * Num /\ Den * Num \in Int
    BY <1>1, <1>t, Grows
  <1> HIDE DEF a, b
  <1>4. u <= Num /\ u \in Int /\ b \div Den <= u
    <2>0. b \in Int /\ Den \in Nat \ {0}
      BY <1>1, <1>2
    <2>1. u \in Int /\ b \div Den <= u
      BY <2>0, RoundingUp, Zenon
    <2>2. u <= Num
      BY <1>1, <1>2, <1>3, RoundedUpIs
    <2> QED  BY <2>1, <2>2
  <1>5. a \div Den \in Nat /\ b \div Den \in Nat /\ a \div Den <= b \div Den
    <2>1. a \div Den \in Int /\ b \div Den \in Int
      BY <1>1, <1>2, Division
    <2>2. Den * 0 <= a /\ Den * 0 <= b
      BY <1>1, <1>2
    <2>3. 0 <= a \div Den
      BY <1>1, <1>2, <2>2, QuotientAtLeast
    <2>4. 0 <= b \div Den
      BY <1>1, <1>2, <2>2, QuotientAtLeast
    <2>5. a \div Den <= b \div Den
      BY <1>1, <1>2, QuotientGrows
    <2> QED  BY <2>1, <2>3, <2>4, <2>5
  <1>6. Extra <= u
    <2>1. CASE Extra = 0
      BY <2>1, <1>4, <1>5
    <2>2. CASE Extra = 1
      <3>1. 1 * Num <= t * Num /\ 1 * Num = Num
        BY <1>1, <1>t, <2>2, Grows
      <3>2. Den * 0 < b
        BY <1>1, <1>2, <2>2, <3>1 DEF b
      <3>3. 0 < u
        BY <1>1, <1>2, <3>2, RoundedUpIs
      <3> QED  BY <1>4, <2>2, <3>3
    <2> QED  BY <1>1, <2>1, <2>2
  <1>8. LastRow(k) = u - Extra /\ LastRow(k) \in 0 .. c.srcH - 1
    <2> HIDE DEF u
    <2> HIDE DEF u
    <2>1. u - Extra <= c.srcH - 1 /\ u - Extra \in Nat
      BY <1>1, <1>4, <1>6
    <2>2. LastRow(k) = u - Extra
      BY <1>1, <1>t, <2>1 DEF Least
    <2> QED  BY <1>1, <2>1, <2>2
  <1>9. FirstRow(k) \in 0 .. c.srcH - 1
    <2>2. a \div Den <= Num - Extra
      <3>1. CASE Extra = 0
        BY <1>1, <1>4, <1>5, <3>1
      <3>2. CASE Extra = 1
        <4>0. k \in Int /\ k < Den /\ Den \in Int /\ Num \in Nat
          BY <1>1, <3>2
        <4>t. k * Num + Num <= Den * Num
          BY <4>0, RowsApart, Zenon
        <4>1. a + Num <= Den * Num
          BY <4>t DEF a
        <4>2. a < Den * Num
          BY <1>1, <1>2, <1>3, <3>2, <4>1
        <4>3. a \div Den < Num
          BY <1>1, <1>2, <4>2, QuotientBelow
        <4> QED  BY <1>1, <1>5, <3>2, <4>3
      <3> QED  BY <1>1, <3>1, <3>2
    <2>3. FirstRow(k) = a \div Den
      BY <1>r DEF a
    <2> QED  BY <1>1, <1>5, <2>2, <2>3
  <1>10. ASSUME NEW r \in SourceRows(c.mode, c.srcH, c.scaledH, k)
         PROVE  r \in FirstRow(k) .. LastRow(k)
    <2>1. CASE c.mode = "up"
      <3>1. Num = c.srcH - 1 /\ Den = c.scaledH - 1 /\ Extra = 0 /\ b = a
        BY <1>1, <1>t, <2>1 DEF Num, Den, Extra, a, b
      <3>2. r \in a \div Den .. (a + c.scaledH - 2) \div Den
        BY <2>1, <3>1 DEF SourceRows, a
      <3>3. a + c.scaledH - 2 = a + Den - 1 /\ a + Den - 1 \in Int
        BY <1>1, <1>2, <3>1
      <3> DEFINE e == a + Den - 1
      <3>4. r \in Int /\ a \div Den <= r /\ r <= e \div Den
        BY <1>1, <1>2, <3>2, <3>3, Division
      <3>5. Den * (r - 1) < b
        <4> DEFINE f == e \div Den
        <4>0. f \in Int /\ Den * f <= e /\ Den * f \in Int
          BY <1>1, <3>3, Division
        <4>1. Den * r <= Den * f /\ Den * r \in Int
          <5>0. r <= f /\ r \in Int
            BY <3>4
          <5> HIDE DEF f
          <5>1. r * Den <= f * Den /\ r * Den = Den * r /\ r * Den \in Int
            BY <1>1, <4>0, <5>0, Grows
          <5>2. f * Den = Den * f
            BY <1>1, <4>0
          <5> QED  BY <5>1, <5>2
        <4>2. Den \in Int /\ r \in Int
          BY <1>1, <3>4
        <4>3. Den * (r - 1) = Den * r - Den
          BY <4>2
        <4> HIDE DEF f
        <4> QED  BY <1>1, <1>2, <3>1, <4>0, <4>1, <4>3
      <3>6. r - 1 < u
        BY <1>1, <1>2, <3>4, <3>5, RoundedUpIs
      <3> HIDE DEF u
      <3>7. FirstRow(k) = a \div Den
        BY <1>r DEF a
      <3> QED  BY <1>4, <1>8, <3>1, <3>4, <3>6, <3>7
    <2>2. CASE c.mode # "up"
      <3>1. Num = c.srcH /\ Den = c.scaledH /\ Extra = 1
        BY <2>2 DEF Num, Den, Extra
      <3>2. r \in a \div Den .. (b - 1) \div Den
        BY <1>t, <2>2, <3>1 DEF SourceRows, a, b
      <3>3. r \in Int /\ a \div Den <= r /\ r <= (b - 1) \div Den
        BY <1>1, <1>2, <3>2, Division
      <3>4. Den * r < b
        <4> DEFINE f == (b - 1) \div Den
        <4>0. f \in Int /\ Den * f <= b - 1 /\ Den * f \in Int
          <5>1. b - 1 \in Int
            BY <1>2
          <5> QED  BY <1>1, <5>1, Division
        <4>1. Den * r <= Den * f /\ Den * r \in Int
          <5>0. r <= f /\ r \in Int
            BY <3>3
          <5> HIDE DEF f
          <5>1. r * Den <= f * Den /\ r * Den = Den * r /\ r * Den \in Int
            BY <1>1, <4>0, <5>0, Grows
          <5>2. f * Den = Den * f
            BY <1>1, <4>0
          <5> QED  BY <5>1, <5>2
        <4> HIDE DEF f
        <4> QED  BY <1>1, <1>2, <4>0, <4>1
      <3>5. r < u
        BY <1>1, <1>2, <3>3, <3>4, RoundedUpIs
      <3> HIDE DEF u
      <3>6. FirstRow(k) = a \div Den
        BY <1>r DEF a
      <3> QED  BY <1>4, <1>8, <3>1, <3>3, <3>5, <3>6
    <2> QED  BY <2>1, <2>2
  <1>11. u - Extra = RoundedUp((k + Extra) * Num, Den) - Extra
    BY <1>t DEF b
  <1> QED  BY <1>8, <1>9, <1>10, <1>11

(* Later rows of the output need later rows of the source.               *)
LEMMA RowsGrow ==
  ASSUME page \in Pages, c = OutputProperties(page), c.scale # "none",
         NEW k \in 0 .. c.scaledH - 1, NEW l \in 0 .. c.scaledH - 1, k <= l
  PROVE  FirstRow(k) <= FirstRow(l) /\ LastRow(k) <= LastRow(l)
  <1>1. /\ Num \in Nat /\ Den \in Nat \ {0} /\ Extra \in {0, 1}
        /\ c.scaledH \in Nat \ {0}
        /\ FirstRow(k) = (k * Num) \div Den /\ FirstRow(l) = (l * Num) \div Den
    BY FactorsAre
  <1>2. /\ LastRow(k) = RoundedUp((k + Extra) * Num, Den) - Extra
        /\ LastRow(l) = RoundedUp((l + Extra) * Num, Den) - Extra
    BY RowsAre
  <1>3. k * Num <= l * Num /\ k * Num \in Int /\ l * Num \in Int
    BY <1>1, Grows
  <1>4. /\ (k + Extra) * Num <= (l + Extra) * Num
        /\ (k + Extra) * Num \in Int /\ (l + Extra) * Num \in Int
    BY <1>1, Grows
  <1>5. RoundedUp((k + Extra) * Num, Den) <= RoundedUp((l + Extra) * Num, Den)
    BY <1>1, <1>4, RoundedUpGrows
  <1>6. /\ RoundedUp((k + Extra) * Num, Den) \in Int
        /\ RoundedUp((l + Extra) * Num, Den) \in Int
    BY <1>1, <1>4, RoundingUp
  <1>7. FirstRow(k) <= FirstRow(l)
    BY <1>1, <1>3, QuotientGrows
  <1> QED  BY <1>1, <1>2, <1>5, <1>6, <1>7

(* The rows the scaler is asked for: never a single one.                   *)
StartOf(from, last) == IF from = last /\ from > 0 THEN from - 1 ELSE from
EndOf(from, last)   == IF from = last /\ from = 0 THEN Least(1, c.scaledH - 1) ELSE last

(* The row more that is made when the last of them is not one of the source*)
(* as it is.                                                               *)
RowMore(e) == Rest(e * (c.srcH - 1), c.scaledH - 1)

(* LIB_PHOTO_SCALER_calculate_scaling_rows, in terms of these.             *)
LEMMA ScalingRowsAre ==
  ASSUME page \in Pages, c = OutputProperties(page), c.scale # "none",
         NEW from \in 0 .. c.scaledH - 1, NEW last \in from .. c.scaledH - 1
  PROVE  LET n == ScalingRows(c.mode, c.srcH, c.scaledH, from, last)
             s == StartOf(from, last)
             e == EndOf(from, last)
         IN /\ n.first = FirstRow(s) /\ n.last = LastRow(e) /\ n.start = s
            /\ n.offset = from - s /\ n.rows \in {e - s + 1, e - s + 2}
            /\ n.rows = e - s + 1 + (IF c.mode = "up" THEN RowMore(e) ELSE 0)
            /\ s \in 0 .. from /\ from - 1 <= s /\ (from # last => s = from)
            /\ e \in last .. c.scaledH - 1 /\ e <= last + 1 /\ s <= e
            /\ (e = last + 1 => from = 0 /\ last = 0)
  <1> DEFINE n == ScalingRows(c.mode, c.srcH, c.scaledH, from, last)
             s == StartOf(from, last)
             e == EndOf(from, last)
  <1>1. c.scaledH \in Nat \ {0} /\ c.srcH \in Nat \ {0}
    BY SizesAre
  <1>2. /\ s \in 0 .. from /\ from - 1 <= s /\ (from # last => s = from)
        /\ e \in last .. c.scaledH - 1 /\ e <= last + 1 /\ s <= e
        /\ (e = last + 1 => from = 0 /\ last = 0)
    BY <1>1 DEF StartOf, EndOf, Least
  <1>3. /\ s = (IF from = last /\ from > 0 THEN from - 1 ELSE from)
        /\ e = Least(IF from = last /\ from = 0 THEN 1 ELSE last, c.scaledH - 1)
    BY <1>1 DEF StartOf, EndOf, Least
  <1> HIDE DEF s, e
  <1>4. /\ n.start = s /\ n.offset = from - s
        /\ n.rows = e - s + 1 + (IF c.mode = "up" THEN Rest(e * (c.srcH - 1), c.scaledH - 1) ELSE 0)
    BY <1>3 DEF ScalingRows
  <1>8. n.rows = e - s + 1 + (IF c.mode = "up" THEN RowMore(e) ELSE 0)
    BY <1>4, Zenon DEF RowMore
  <1>5. n.first = FirstRow(s)
    BY <1>3 DEF ScalingRows, FirstRow
  <1>6. n.last = LastRow(e)
    <2>1. n.last = Least(IF c.mode = "up" THEN (e * (c.srcH - 1)) \div (c.scaledH - 1)
                                 + Rest(e * (c.srcH - 1), c.scaledH - 1)
                         ELSE ((e + 1) * c.srcH) \div c.scaledH - 1 + Rest((e + 1) * c.srcH, c.scaledH),
                         c.srcH - 1)
      BY <1>3 DEF ScalingRows
    <2> QED  BY <2>1 DEF LastRow
  <1>7. n.rows \in {e - s + 1, e - s + 2}
    BY <1>1, <1>2, <1>4 DEF Rest
  <1> QED  BY <1>2, <1>4, <1>5, <1>6, <1>7, <1>8 DEF s, e

(* A set of numbers has a least, and one with a bound a greatest.          *)
LEMMA LeastOf ==
  ASSUME NEW T \in SUBSET Nat, T # {}
  PROVE \E m \in T : \A k \in T : m <= k
  <1>2. \E m \in T : \A k \in T : ~ (<<k, m>> \in OpToRel(<, Nat))
    BY NatLessThanWellFounded, WFMin, Zenon
  <1>3. PICK m \in T : \A k \in T : ~ (<<k, m>> \in OpToRel(<, Nat))
    BY <1>2
  <1>4. \A k \in T : ~ (k < m)
    <2> TAKE k \in T
    <2>1. <<k, m>> \in Nat \X Nat /\ <<k, m>>[1] = k /\ <<k, m>>[2] = m
      OBVIOUS
    <2>2. ~ (<<k, m>>[1] < <<k, m>>[2])
      BY <1>3, <2>1, Zenon DEF OpToRel
    <2> QED BY <2>1, <2>2
  <1> QED BY <1>4

(* The greatest of a set of numbers with a bound.                        *)
LEMMA MaxIs ==
  ASSUME NEW S \in SUBSET Int, S # {}, NEW b \in Int, \A x \in S : x <= b
  PROVE  Max(S) \in S /\ \A x \in S : x <= Max(S)
  <1> DEFINE T == {b - x : x \in S}
  <1>1. T \in SUBSET Nat /\ T # {}
    <2>1. PICK x \in S : TRUE
      OBVIOUS
    <2>2. b - x \in T
      OBVIOUS
    <2>3. ASSUME NEW t \in T PROVE t \in Nat
      <3>1. PICK y \in S : t = b - y
        OBVIOUS
      <3>2. y \in Int /\ y <= b
        OBVIOUS
      <3> QED BY <3>1, <3>2
    <2> QED BY <2>2, <2>3
  <1>3. PICK m \in T : \A k \in T : m <= k
    BY <1>1, LeastOf
  <1>4. PICK y \in S : m = b - y
    OBVIOUS
  <1>5. \A x \in S : x <= y
    BY <1>3, <1>4
  <1>6. \E z \in S : \A x \in S : z >= x
    BY <1>5
  <1> QED  BY <1>6 DEF Max

(***************************************************************************)
(* Room: for the rows of the scaler, those it generates, and those a       *)
(* decoder caches.                                                         *)
(***************************************************************************)

(* The rows of the first stripe.                                           *)
FirstEnd == EndOf(0, Least(StripHeight - 1, c.scaledH - 1))

(* What room is made for: the rows of every stripe that starts where       *)
(* stripes of an image without paddings start.                             *)
LEMMA RoomIs ==
  ASSUME page \in Pages, c = OutputProperties(page)
  PROVE  /\ c.outRows \in Nat /\ c.outRows >= StripHeight
         /\ c.winRows \in Nat
         /\ c.scale # "none" =>
              /\ FirstEnd \in 0 .. c.scaledH - 1
              /\ c.scaledH >= StripHeight => c.outRows >= StripHeight + 1
              /\ c.winRows >= LastRow(FirstEnd) + 3
              /\ \A i \in 0 .. Least(c.printH, c.scaledH) - 1 :
                   i % StripHeight = 0 =>
                     ScalingRows(c.mode, c.srcH, c.scaledH, i,
                                 Least(i + StripHeight - 1, c.scaledH - 1)).rows + 1 <= c.outRows
  <1> DEFINE ph      == c.printH
             stripes == {i \in 0 .. Least(ph, c.scaledH) - 1 : i % StripHeight = 0}
             lastOf(i) == Least(i + StripHeight - 1, c.scaledH - 1)
             rows(i) == ScalingRows(c.mode, c.srcH, c.scaledH, i, lastOf(i))
             need    == {rows(i) : i \in stripes}
             made    == {StripHeight} \cup {n.rows + 1 : n \in need}
             kept    == {n.last - n.first + 3 : n \in need}
  <1>1. /\ c.outRows = (IF c.scale = "none" THEN StripHeight ELSE Max(made))
        /\ c.winRows = (IF c.scale = "none" THEN 0 ELSE Max(kept))
    <2> DEFINE sample  == SampleSize(page)
               size    == Turned(page, page.w \div sample, page.h \div sample)
               w       == size[1]
               h       == size[2]
               wanted  == {"autoScale", "autoFit"} \cap page.flags
               scale   == IF wanted # {} /\ ~ TargetReached(page, w, h)
                          THEN CHOOSE f \in wanted : "autoScale" \in wanted => f = "autoScale"
                          ELSE "none"
               scaled  == IF scale = "none" THEN size ELSE ScaledSize(page, w, h)
               mode    == IF scale = "none" THEN "none" ELSE ScaleMode(w, h, scaled[1], scaled[2])
               sh      == scaled[2]
               tall    == PrintableHeight(page)
               asked   == {ScalingRows(mode, h, sh, i, Least(i + StripHeight - 1, sh - 1)) :
                             i \in {k \in 0 .. Least(tall, sh) - 1 : k % StripHeight = 0}}
    <2>1. /\ c.printH = tall /\ c.srcH = h /\ c.scale = scale /\ c.mode = mode /\ c.scaledH = sh
          /\ c.outRows = (IF scale = "none" THEN StripHeight
                          ELSE Max({StripHeight} \cup {n.rows + 1 : n \in asked}))
          /\ c.winRows = (IF scale = "none" THEN 0 ELSE Max({n.last - n.first + 3 : n \in asked}))
      BY DEF OutputProperties
    <2> HIDE DEF h, scale, mode, sh, tall
    <2>2. asked = need
      BY <2>1
    <2> HIDE DEF asked, need
    <2> QED  BY <2>1, <2>2
  <1>2. /\ StripHeight \in Nat \ {0} /\ ph \in Nat \ {0} /\ c.scaledH \in Nat \ {0}
        /\ c.srcH \in Nat \ {0}
    BY SizesAre, StripeAssumption
  <1>3. CASE c.scale = "none"
    BY <1>1, <1>2, <1>3
  <1>4. CASE c.scale # "none"
    <2>1. ASSUME NEW i \in stripes
          PROVE  /\ i \in 0 .. c.scaledH - 1 /\ lastOf(i) \in i .. c.scaledH - 1
                 /\ rows(i).rows \in Nat /\ rows(i).rows <= c.scaledH + 1
                 /\ rows(i).last - rows(i).first \in Int
                 /\ rows(i).last - rows(i).first <= c.srcH
      <3>1. i \in 0 .. c.scaledH - 1 /\ lastOf(i) \in i .. c.scaledH - 1
        BY <1>2, <2>1 DEF Least
      <3> DEFINE s == StartOf(i, lastOf(i))
                 e == EndOf(i, lastOf(i))
      <3>2. /\ rows(i).first = FirstRow(s) /\ rows(i).last = LastRow(e)
            /\ rows(i).rows \in {e - s + 1, e - s + 2}
            /\ s \in 0 .. i /\ e \in lastOf(i) .. c.scaledH - 1 /\ s <= e
        <4> HIDE DEF lastOf
        <4> QED  BY <1>4, <3>1, ScalingRowsAre
      <3> HIDE DEF s, e, rows, lastOf
      <3>3. s \in 0 .. c.scaledH - 1 /\ e \in 0 .. c.scaledH - 1
        BY <1>2, <3>1, <3>2
      <3>4. FirstRow(s) \in 0 .. c.srcH - 1 /\ LastRow(e) \in 0 .. c.srcH - 1
        BY <1>4, <3>3, RowsAre
      <3> QED  BY <1>2, <3>1, <3>2, <3>3, <3>4
    <2>2. 0 \in stripes /\ lastOf(0) = Least(StripHeight - 1, c.scaledH - 1)
      BY <1>2 DEF Least
    <2> DEFINE e0 == FirstEnd
    <2>3. /\ rows(0).first = FirstRow(0) /\ rows(0).last = LastRow(e0)
          /\ rows(0).rows >= e0 + 1 /\ e0 \in lastOf(0) .. c.scaledH - 1
          /\ lastOf(0) \in 0 .. c.scaledH - 1
          /\ e0 \in 0 .. c.scaledH - 1
      <3>0. lastOf(0) \in 0 .. c.scaledH - 1 /\ 0 \in 0 .. c.scaledH - 1
        BY <1>2, <2>1, <2>2
      <3> DEFINE l == lastOf(0)
      <3>1. l = Least(StripHeight - 1, c.scaledH - 1)
        BY <2>2
      <3>2. /\ rows(0).first = FirstRow(StartOf(0, l)) /\ rows(0).last = LastRow(EndOf(0, l))
            /\ rows(0).rows \in {EndOf(0, l) - StartOf(0, l) + 1, EndOf(0, l) - StartOf(0, l) + 2}
            /\ StartOf(0, l) \in 0 .. 0 /\ EndOf(0, l) \in l .. c.scaledH - 1
        <4> HIDE DEF lastOf
        <4> QED  BY <1>4, <3>0, ScalingRowsAre
      <3> HIDE DEF rows
      <3>3. EndOf(0, l) = e0
        BY <3>1, Zenon DEF FirstEnd
      <3> HIDE DEF lastOf, e0
      <3> QED  BY <1>2, <3>0, <3>2, <3>3
    <2>4. FirstRow(0) = 0
      <3>1. FirstRow(0) = (0 * Num) \div Den /\ Num \in Nat /\ Den \in Nat \ {0}
        BY <1>4, FactorsAre
      <3>2. 0 * Num = 0 /\ 0 \div Den = 0
        BY <3>1
      <3> QED  BY <3>1, <3>2
    <2> HIDE DEF rows, e0, stripes
    <2>5. /\ c.outRows \in made /\ \A x \in made : x <= c.outRows /\ x \in Int
      <3>1. \A x \in made : x \in Int /\ x <= c.scaledH + 2 + StripHeight
        BY <1>2, <2>1
      <3> HIDE DEF made
      <3>2. made # {}
        BY DEF made
      <3> DEFINE b == c.scaledH + 2 + StripHeight
      <3>3. made \in SUBSET Int /\ b \in Int /\ \A x \in made : x <= b
        BY <1>2, <3>1
      <3> HIDE DEF b
      <3>4. Max(made) \in made /\ \A x \in made : x <= Max(made)
        BY <3>2, <3>3, MaxIs
      <3> QED  BY <1>1, <1>4, <3>1, <3>4
    <2>6. /\ c.winRows \in kept /\ \A x \in kept : x <= c.winRows /\ x \in Int
      <3>1. \A x \in kept : x \in Int /\ x <= c.srcH + 3
        BY <1>2, <2>1
      <3>2. kept # {}
        BY <2>2
      <3> HIDE DEF kept
      <3> DEFINE b == c.srcH + 3
      <3>3. kept \in SUBSET Int /\ b \in Int /\ \A x \in kept : x <= b
        BY <1>2, <3>1
      <3> HIDE DEF b
      <3>4. Max(kept) \in kept /\ \A x \in kept : x <= Max(kept)
        BY <3>2, <3>3, MaxIs
      <3> QED  BY <1>1, <1>4, <3>1, <3>4
    <2>7. rows(0) \in need
      BY <2>2
    <2>15. \A i \in stripes : rows(i).rows + 1 <= c.outRows
      <3> SUFFICES ASSUME NEW i \in stripes PROVE rows(i).rows + 1 <= c.outRows
        OBVIOUS
      <3>1. rows(i) \in need
        OBVIOUS
      <3> HIDE DEF need
      <3>2. rows(i).rows + 1 \in made
        BY <3>1
      <3> HIDE DEF made
      <3> QED  BY <2>5, <3>2
    <2>8. /\ rows(0).rows + 1 \in made /\ StripHeight \in made
          /\ rows(0).last - rows(0).first + 3 \in kept
      BY <2>7
    <2> HIDE DEF made, kept, need
    <2>9. LastRow(e0) \in 0 .. c.srcH - 1
      BY <1>4, <2>3, RowsAre
    <2>10. /\ c.outRows >= StripHeight /\ c.outRows \in Int
           /\ rows(0).rows + 1 <= c.outRows
      BY <2>5, <2>8
    <2>11. c.scaledH >= StripHeight => lastOf(0) = StripHeight - 1
      BY <1>2, <2>2 DEF Least
    <2>12. rows(0).rows \in Nat
      BY <2>1, <2>2
    <2>13. c.scaledH >= StripHeight => c.outRows >= StripHeight + 1
      <3> HIDE DEF lastOf
      <3> QED  BY <1>2, <2>3, <2>10, <2>11, <2>12
    <2>14. c.winRows \in Int /\ c.winRows >= LastRow(e0) + 3
      <3>1. rows(0).last - rows(0).first + 3 = LastRow(e0) + 3
        BY <2>3, <2>4, <2>9
      <3> QED  BY <2>6, <2>8, <3>1
    <2>16. \A i \in 0 .. Least(c.printH, c.scaledH) - 1 :
             i % StripHeight = 0 =>
               ScalingRows(c.mode, c.srcH, c.scaledH, i,
                           Least(i + StripHeight - 1, c.scaledH - 1)).rows + 1 <= c.outRows
      BY <2>15, Zenon DEF stripes, rows, lastOf
    <2> HIDE DEF lastOf
    <2> QED  BY <1>2, <2>3, <2>9, <2>10, <2>13, <2>14, <2>16 DEF e0
  <1> QED  BY <1>3, <1>4

(* Any rows that are no more than those of the first stripe need no more   *)
(* rows of the source than there is room for.                              *)
LEMMA WindowFits ==
  ASSUME page \in Pages, c = OutputProperties(page), c.scale # "none",
         NEW s \in 0 .. c.scaledH - 1, NEW e \in s .. c.scaledH - 1, e - s <= FirstEnd
  PROVE  LastRow(e) - FirstRow(s) + 1 <= c.winRows
  <1> DEFINE e0 == FirstEnd
  <1>1. /\ Num \in Nat /\ Den \in Nat \ {0} /\ Extra \in {0, 1} /\ c.scaledH \in Nat \ {0}
        /\ FirstRow(s) = (s * Num) \div Den
    BY FactorsAre
  <1>2. /\ e0 \in 0 .. c.scaledH - 1 /\ c.winRows >= LastRow(e0) + 3 /\ c.winRows \in Nat
    BY RoomIs
  <1>3. /\ LastRow(e) = RoundedUp((e + Extra) * Num, Den) - Extra
        /\ LastRow(e0) = RoundedUp((e0 + Extra) * Num, Den) - Extra
    BY <1>1, <1>2, RowsAre
  <1> DEFINE a == (e + Extra) * Num
             b == (e0 + Extra) * Num
             f == s * Num
             u == RoundedUp(a, Den)
             v == RoundedUp(b, Den)
             q == f \div Den
  <1>e. e0 = FirstEnd
    OBVIOUS
  <1> HIDE DEF e0
  <1>4. a \in Int /\ b \in Int /\ f \in Int /\ a <= b + f
    <2>1. (e + Extra) * Num <= (e0 + Extra + s) * Num
          /\ (e + Extra) * Num \in Int
      BY <1>1, <1>2, <1>e, Grows
    <2>2. (e0 + Extra + s) * Num = (e0 + Extra) * Num + s * Num
          /\ (e0 + Extra) * Num \in Int /\ s * Num \in Int
      BY <1>1, <1>2
    <2> QED  BY <2>1, <2>2
  <1> HIDE DEF a, b, f
  <1>5. u \in Int /\ v \in Int /\ Den * u < a + Den /\ b <= Den * v
        /\ Den * u \in Int /\ Den * v \in Int
    BY <1>1, <1>4, RoundingUp
  <1>6. q \in Int /\ f < Den * q + Den /\ Den * q \in Int
    BY <1>1, <1>4, Division
  <1> HIDE DEF u, v, q
  <1>7. Den * (v + q + 2) = Den * v + Den * q + Den + Den
    BY <1>1, <1>5, <1>6
  <1>8. Den * u < Den * (v + q + 2)
    <2> DEFINE x == Den * u
               y == Den * v
               z == Den * q
    <2>1. x \in Int /\ y \in Int /\ z \in Int /\ x < a + Den /\ b <= y /\ f < z + Den
      BY <1>5, <1>6
    <2>2. Den * (v + q + 2) = y + z + Den + Den
      BY <1>7
    <2> HIDE DEF x, y, z
    <2>3. x < y + z + Den + Den
      BY <1>1, <1>4, <2>1
    <2> QED  BY <2>2, <2>3 DEF x
  <1>9. u < v + q + 2
    BY <1>1, <1>5, <1>6, <1>8, Smaller
  <1>10. /\ LastRow(e) = u - Extra /\ LastRow(e0) = v - Extra /\ FirstRow(s) = q
    BY <1>1, <1>3 DEF a, b, f, u, v, q
  <1> QED  BY <1>1, <1>2, <1>5, <1>6, <1>9, <1>10

(* There is memory for a row at least.                                     *)
LEMMA CachedRows ==
  ASSUME page \in Pages, c = OutputProperties(page)
  PROVE  RowsToCache \in Nat \ {0} /\ InputRows \in Nat \ {0} /\ BufferSize \in Nat
         /\ (~ Sideways(c.rot) => InputRows <= c.sampH)
  <1>1. /\ c.sampW \in Nat \ {0} /\ c.sampH \in Nat \ {0}
        /\ c.sampW <= MinDecodeMem /\ c.sampH <= MinDecodeMem
        /\ c.scaledW \in Nat \ {0} /\ c.scaledH \in Nat \ {0} /\ c.outW \in Nat \ {0}
        /\ PageWidth \in Nat
    BY SizesAre, LayoutIs
  <1>2. c.outRows \in Nat /\ c.winRows \in Nat
    BY RoomIs
  <1> DEFINE rowWidth == IF Sideways(c.rot) THEN c.sampH ELSE c.sampW
             memory   == Greatest(MaxDecodeMem - BufferSize * MaxSendBuffs
                                               - c.winRows * c.outW, MinDecodeMem)
             most     == memory \div rowWidth
             rows     == IF most >= RowUnit THEN most - (most % RowUnit) ELSE most
  <1>3. BufferSize \in Nat
    <2>1. Greatest(Greatest(c.scaledW, c.scaledH), PageWidth) \in Nat
      BY <1>1 DEF Greatest
    <2>2. \A x, y \in Nat : x * y \in Nat
      OBVIOUS
    <2> QED  BY <1>2, <2>1, <2>2 DEF BufferSize
  <1>4. memory \in Int /\ memory >= MinDecodeMem
    <2>1. BufferSize * MaxSendBuffs \in Int /\ c.winRows * c.outW \in Int
      BY <1>1, <1>2, <1>3, StripeAssumption
    <2> QED  BY <2>1, StripeAssumption DEF Greatest
  <1>5. RowsToCache = Least(rows, IF Sideways(c.rot) THEN Greatest(c.sampW, c.sampH) ELSE c.sampH)
    BY DEF RowsToCache
  <1>6. rowWidth \in Nat \ {0} /\ rowWidth <= MinDecodeMem /\ MinDecodeMem \in Nat
    BY <1>1, StripeAssumption
  <1> HIDE DEF memory, rowWidth
  <1>7. most \in Int /\ most >= 1
    <2>1. rowWidth * 1 <= memory
      BY <1>4, <1>6
    <2> QED  BY <1>4, <1>6, <2>1, Division, QuotientAtLeast
  <1> HIDE DEF most
  <1>8. rows \in Nat \ {0}
    BY <1>7, StripeAssumption
  <1> HIDE DEF rows
  <1> QED  BY <1>1, <1>3, <1>5, <1>8 DEF Least, Greatest, InputRows

(***************************************************************************)
(* The decoders.                                                           *)
(***************************************************************************)

(* Reading rows that follow one another.                                   *)
LEMMA LoadIs ==
  ASSUME page \in Pages, c = OutputProperties(page),
         NEW d, NEW row \in Int, NEW base \in Int, NEW a \in Nat, NEW b \in Int, a <= b
  PROVE  LET l == Load(d, row, base, a .. b)
             s == (row \div InputRows) * InputRows
         IN /\ l.swath = s /\ l.base = base /\ l.pos = b + 1
            /\ l.line = base + (row - s)
            /\ l.ok <=> page.bad \notin a .. b /\ b < c.sampH
            /\ l = [swath |-> l.swath, base |-> l.base, pos |-> l.pos, ok |-> l.ok,
                    line |-> l.line]
  <1>1. c.sampH \in Nat
    BY SizesAre
  <1>2. Max(a .. b) = b
    <2>1. b \in a .. b /\ \A x \in a .. b : b >= x
      OBVIOUS
    <2>2. \A y \in a .. b : (\A x \in a .. b : y >= x) => y = b
      OBVIOUS
    <2> QED  BY <2>1, <2>2 DEF Max
  <1>3. a .. b \subseteq 0 .. c.sampH - 1 <=> b < c.sampH
    BY <1>1
  <1> QED  BY <1>2, <1>3 DEF Load

(* A row belongs to the swath it is in.                                    *)
LEMMA SwathIs ==
  ASSUME page \in Pages, c = OutputProperties(page), NEW row \in Nat
  PROVE  LET n == InputRows
             s == (row \div n) * n
         IN /\ n \in Nat \ {0} /\ s \in Nat /\ s <= row /\ row < s + n
            /\ s = (s \div n) * n
            /\ \A t \in Nat : t = (t \div n) * n /\ t + n <= row => t + n <= s
            /\ \A h \in Nat : h % n = 0 /\ row < h => s + n <= h
  <1> DEFINE n == InputRows
             q == row \div n
             s == q * n
  <1>1. n \in Nat \ {0}
    BY CachedRows
  <1> HIDE DEF n
  <1>2. q \in Int /\ s \in Int /\ s = n * q /\ s <= row /\ row < s + n
    BY <1>1, Division
  <1>3. 0 <= q
    BY <1>1, QuotientAtLeast
  <1>4. s \in Nat
    <2>1. 0 * n <= q * n /\ 0 * n = 0
      BY <1>1, <1>2, <1>3, Grows
    <2> QED  BY <1>2, <2>1
  <1>5. s = (s \div n) * n
    <2> HIDE DEF q
    <2>1. n * q <= s /\ s < n * q + n
      BY <1>1, <1>2
    <2>2. s \div n = q
      BY <1>1, <1>2, <2>1, QuotientIs
    <2> QED  BY <2>2
  <1>6. ASSUME NEW t \in Nat, t = (t \div n) * n, t + n <= row
        PROVE  t + n <= s
    <2> DEFINE p == t \div n
    <2>1. p \in Int /\ t = p * n
      BY <1>1, <1>6, Division
    <2> HIDE DEF p, q
    <2>2. n * (p + 1) <= row
      <3>1. n * (p + 1) = p * n + n
        BY <1>1, <2>1
      <3> QED  BY <1>6, <2>1, <3>1
    <2>3. p + 1 <= q
      BY <1>1, <2>1, <2>2, QuotientAtLeast DEF q
    <2>4. p < q
      BY <1>2, <2>1, <2>3
    <2>5. p * n + n <= q * n
      BY <1>1, <1>2, <2>1, <2>4, RowsApart
    <2> QED  BY <2>1, <2>5
  <1>7. ASSUME NEW h \in Nat, h % n = 0, row < h
        PROVE  s + n <= h
    <2> DEFINE p == h \div n
    <2>1. p \in Int /\ h = n * p /\ n * p = p * n
      BY <1>1, <1>7, Division
    <2> HIDE DEF p, q
    <2>2. n * q < n * p
      BY <1>1, <1>2, <1>7, <2>1
    <2>3. q < p
      BY <1>1, <1>2, <2>1, <2>2, Smaller
    <2>4. q * n + n <= p * n
      BY <1>1, <1>2, <2>1, <2>3, RowsApart
    <2> QED  BY <2>1, <2>4
  <1> QED  BY <1>1, <1>2, <1>4, <1>5, <1>6, <1>7 DEF n

(* What is kept of a file that is not subsampled is all of it.             *)
LEMMA HeightIs ==
  ASSUME page \in Pages, c = OutputProperties(page)
  PROVE  /\ page.h \in Nat /\ c.sampH <= page.h
         /\ ~ Subsamples(page) \/ c.sample = 1 => c.sampH = page.h
  <1>1. /\ page.h \in Nat /\ c.sample \in Nat \ {0} /\ c.sampH = page.h \div c.sample
        /\ c.sample = SampleSize(page)
    BY SizesAre, PropertiesAre
  <1>2. c.sample = 1 => c.sampH = page.h
    BY <1>1
  <1>3. c.sampH <= page.h
    <2>1. \A d \in Nat \ {0} : page.h <= d * page.h
      <3> TAKE d \in Nat \ {0}
      <3>1. 1 * page.h <= d * page.h
        BY <1>1, Grows
      <3> QED  BY <1>1, <3>1
    <2>2. page.h < c.sample * (page.h + 1)
      <3>1. c.sample * (page.h + 1) = c.sample * page.h + c.sample /\ c.sample * page.h \in Int
        BY <1>1
      <3>2. page.h <= c.sample * page.h
        BY <1>1, <2>1
      <3> DEFINE x == c.sample * page.h
      <3>3. x \in Int /\ page.h <= x
        BY <3>1, <3>2
      <3> HIDE DEF x
      <3>4. page.h < x + c.sample
        BY <1>1, <3>3
      <3> QED  BY <3>1, <3>4 DEF x
    <2>3. page.h \div c.sample < page.h + 1 /\ page.h \div c.sample \in Int
      <3>1. page.h + 1 \in Int /\ page.h \in Int
        BY <1>1
      <3>2. page.h \div c.sample < page.h + 1
        BY <1>1, <2>2, <3>1, QuotientBelow, Zenon
      <3> QED  BY <1>1, <3>1, <3>2, Division
    <2> QED  BY <1>1, <2>3
  <1>4. ~ Subsamples(page) => c.sample = 1
    BY <1>1 DEF SampleSize
  <1> QED  BY <1>1, <1>2, <1>3, <1>4

(* A decoder that gives a row gives the row that is asked for, and can go  *)
(* on; and it gives every row of a file that can be printed.               *)
LEMMA DecodedIs ==
  ASSUME page \in Pages, c = OutputProperties(page), NEW d, DecoderShape(d), DecoderInv(d),
         NEW row \in 0 .. c.sampH - 1
  PROVE  LET e == Decoded(d, row)
         IN /\ DecoderShape(e)
            /\ e.ok => e.line = row /\ DecoderInv(e)
            /\ ~ e.ok => page.bad # -1 \/ LosesLastSwath
  <1> DEFINE e == Decoded(d, row)
             n == InputRows
             s == (row \div n) * n
  <1>1. /\ n \in Nat \ {0} /\ s \in Nat /\ s <= row /\ row < s + n /\ s = (s \div n) * n
        /\ \A t \in Nat : t = (t \div n) * n /\ t + n <= row => t + n <= s
        /\ \A h \in Nat : h % n = 0 /\ row < h => s + n <= h
    <2>1. row \in Nat
      BY SizesAre
    <2> QED  BY <2>1, SwathIs, Zenon
  <1>2. /\ c.sampH \in Nat \ {0} /\ row \in Nat /\ row < c.sampH
        /\ page.h \in Nat /\ c.sampH <= page.h
        /\ ~ Subsamples(page) \/ c.sample = 1 => c.sampH = page.h
    BY SizesAre, HeightIs
  <1>3. /\ d = [swath |-> d.swath, base |-> d.base, pos |-> d.pos, ok |-> d.ok, line |-> d.line]
        /\ d.swath \in Int /\ d.swath >= -1 /\ d.pos \in Nat /\ d.base \in Int
    BY DEF DecoderShape
  <1> HIDE DEF s
  <1>4. CASE d.swath # -1 /\ row >= d.swath /\ row < d.swath + n
    <2>1. e = [d EXCEPT !.ok = TRUE, !.line = d.base + (row - d.swath)]
      BY <1>2, <1>4 DEF Decoded
    <2>2. e = [swath |-> d.swath, base |-> d.base, pos |-> d.pos, ok |-> TRUE,
               line |-> d.base + (row - d.swath)]
      BY <1>3, <2>1
    <2>3. d.swath \in 0 .. c.sampH - 1 /\ d.base = d.swath
      BY <1>3, <1>4 DEF DecoderInv
    <2>4. e.line = row
      BY <1>2, <2>2, <2>3
    <2> QED  BY <1>3, <2>2, <2>4 DEF DecoderShape, DecoderInv
  <1>5. CASE ~ (d.swath # -1 /\ row >= d.swath /\ row < d.swath + n)
    <2>0. e = (CASE Decoder(page) = "jpeg"   -> JpegRow(d, row)
                 [] Decoder(page) = "png"    -> PngRow(d, row)
                 [] OTHER                    -> Direct(d, row))
      BY <1>2, <1>5 DEF Decoded
    <2>1. ASSUME Decoder(page) \in {"jpeg", "png"}
          PROVE  /\ DecoderShape(e)
                 /\ e.ok => e.line = row /\ DecoderInv(e)
                 /\ ~ e.ok => page.bad # -1 \/ LosesLastSwath
      <3>1. e = Stream(d, row, c.sampH)
        BY <1>2, <2>0, <2>1 DEF JpegRow, PngRow, Subsamples
      <3> DEFINE back == d.swath # -1 /\ row < d.swath
                 pos  == IF back THEN 0 ELSE d.pos
                 from == IF back \/ d.swath = -1 THEN 0 ELSE d.swath + n
                 base == pos + (s - from)
                 last == base + Least(n, c.sampH - s) - 1
      <3>2. pos = from /\ pos \in Nat /\ from <= s
        <4>1. CASE back \/ d.swath = -1
          BY <1>1, <1>3, <4>1 DEF DecoderInv
        <4>2. CASE ~ (back \/ d.swath = -1)
          <5>1. /\ d.swath \in Nat /\ d.swath = (d.swath \div n) * n
                /\ d.pos = d.swath + Least(n, c.sampH - d.swath)
            BY <1>3, <2>1, <4>2 DEF DecoderInv
          <5>2. d.swath + n <= row
            BY <1>1, <1>2, <1>3, <1>5, <4>2
          <5>3. d.swath + n <= s
            BY <1>1, <5>1, <5>2
          <5>4. Least(n, c.sampH - d.swath) = n
            BY <1>1, <1>2, <5>1, <5>2 DEF Least
          <5> QED  BY <1>1, <4>2, <5>1, <5>3, <5>4
        <4> QED  BY <4>1, <4>2
      <3>3. e = Load(d, row, base, pos .. last)
        BY <3>1 DEF Stream, s
      <3>4. base = s
        BY <1>1, <3>2
      <3> HIDE DEF pos, from, base
      <3>5. last \in Int /\ pos <= last /\ last < c.sampH
            /\ last + 1 = s + Least(n, c.sampH - s)
        BY <1>1, <1>2, <3>2, <3>4 DEF Least
      <3> HIDE DEF last, e, n
      <3>6. /\ e.swath = s /\ e.base = s /\ e.pos = last + 1 /\ e.line = s + (row - s)
            /\ e.ok <=> page.bad \notin pos .. last /\ last < c.sampH
            /\ e = [swath |-> e.swath, base |-> e.base, pos |-> e.pos, ok |-> e.ok,
                    line |-> e.line]
        <4>0. base \in Int
          BY <1>1, <3>4
        <4>1. LET l == Load(d, row, base, pos .. last)
                  ss == (row \div InputRows) * InputRows
              IN /\ l.swath = ss /\ l.base = base /\ l.pos = last + 1
                 /\ l.line = base + (row - ss)
                 /\ l.ok <=> page.bad \notin pos .. last /\ last < c.sampH
                 /\ l = [swath |-> l.swath, base |-> l.base, pos |-> l.pos, ok |-> l.ok,
                         line |-> l.line]
          BY <1>2, <3>2, <3>5, <4>0, LoadIs
        <4> QED  BY <3>3, <3>4, <4>1 DEF s, n
      <3>7. DecoderShape(e)
        BY <1>1, <3>2, <3>5, <3>6 DEF DecoderShape
      <3>8. e.line = row
        BY <1>1, <1>2, <3>6
      <3>9. DecoderInv(e)
        <4>1. e.pos = s + Least(n, c.sampH - s)
          BY <3>5, <3>6
        <4>2. s \in 0 .. c.sampH - 1
          BY <1>1, <1>2
        <4> QED  BY <1>1, <3>6, <4>1, <4>2 DEF DecoderInv, n
      <3>10. ~ e.ok => page.bad # -1
        <4>1. page.bad = -1 => page.bad \notin pos .. last
          BY <3>2, <3>5
        <4> QED  BY <3>5, <3>6, <4>1
      <3> QED  BY <3>7, <3>8, <3>9, <3>10
    <2>2. ASSUME Decoder(page) \notin {"jpeg", "png"}
          PROVE  /\ DecoderShape(e)
                 /\ e.ok => e.line = row /\ DecoderInv(e)
                 /\ ~ e.ok => page.bad # -1 \/ LosesLastSwath
      <3> DEFINE last == s + Least(n, page.h - s) - 1
      <3>1. e = Load(d, row, s, s .. last)
        BY <2>0, <2>2 DEF Direct, s
      <3>2. last \in Int /\ s <= last
        BY <1>1, <1>2 DEF Least
      <3>3. ~ LosesLastSwath => last < c.sampH
        <4>1. CASE c.sampH = page.h
          <5>1. Least(n, page.h - s) <= page.h - s /\ Least(n, page.h - s) \in Int
            BY <1>1, <1>2 DEF Least
          <5> HIDE DEF n
          <5> QED  BY <1>1, <1>2, <4>1, <5>1
        <4>2. CASE c.sampH # page.h
          <5>1. Decoder(page) = "bitmap" /\ c.sample # 1
            BY <1>2, <2>2, <4>2 DEF Subsamples
          <5>2. c.sample > 1
            BY <5>1, SizesAre
          <5>3. ASSUME ~ LosesLastSwath PROVE c.sampH % n = 0
            BY <5>1, <5>2, <5>3 DEF LosesLastSwath
          <5>4. ASSUME ~ LosesLastSwath PROVE s + n <= c.sampH
            BY <1>1, <1>2, <5>3, <5>4
          <5>5. Least(n, page.h - s) <= n /\ Least(n, page.h - s) \in Int
            BY <1>1, <1>2 DEF Least
          <5>6. s \in Nat /\ n \in Nat /\ c.sampH \in Nat
            BY <1>1, <1>2
          <5> HIDE DEF n
          <5> QED  BY <5>4, <5>5, <5>6
        <4> QED  BY <4>1, <4>2
      <3> HIDE DEF last, e, n
      <3>6. /\ e.swath = s /\ e.base = s /\ e.pos = last + 1 /\ e.line = s + (row - s)
            /\ e.ok <=> page.bad \notin s .. last /\ last < c.sampH
            /\ e = [swath |-> e.swath, base |-> e.base, pos |-> e.pos, ok |-> e.ok,
                    line |-> e.line]
        <4>1. LET l == Load(d, row, s, s .. last)
                  ss == (row \div InputRows) * InputRows
              IN /\ l.swath = ss /\ l.base = s /\ l.pos = last + 1
                 /\ l.line = s + (row - ss)
                 /\ l.ok <=> page.bad \notin s .. last /\ last < c.sampH
                 /\ l = [swath |-> l.swath, base |-> l.base, pos |-> l.pos, ok |-> l.ok,
                         line |-> l.line]
          BY <1>1, <1>2, <3>2, LoadIs
        <4> QED  BY <3>1, <4>1 DEF s, n
      <3>7. DecoderShape(e)
        BY <1>1, <3>2, <3>6 DEF DecoderShape
      <3>8. e.line = row
        BY <1>1, <1>2, <3>6
      <3>9. DecoderInv(e)
        <4>2. s \in 0 .. c.sampH - 1
          BY <1>1, <1>2
        <4> QED  BY <1>1, <2>2, <3>6, <4>2 DEF DecoderInv, n
      <3>10. ~ e.ok => page.bad # -1 \/ LosesLastSwath
        <4>1. page.bad = -1 => page.bad \notin s .. last
          BY <1>1, <3>2
        <4> QED  BY <3>3, <3>6, <4>1
      <3> QED  BY <3>7, <3>8, <3>9, <3>10
    <2> QED  BY <2>1, <2>2
  <1> QED  BY <1>4, <1>5

(***************************************************************************)
(* A call: the rows it is about, and what does not change in it.           *)
(***************************************************************************)

(* What the page and its output properties determine stays with them.    *)
LEMMA SamePage ==
  ASSUME page' = page, c' = c
  PROVE  /\ PadLeft' = PadLeft /\ PadTop' = PadTop /\ PadRight' = PadRight
         /\ PadBottom' = PadBottom /\ AreaWidth' = AreaWidth /\ AreaHeight' = AreaHeight
         /\ PageWidth' = PageWidth /\ PageHeight' = PageHeight
         /\ BufferSize' = BufferSize /\ RowsToCache' = RowsToCache /\ InputRows' = InputRows
         /\ TopCut' = TopCut /\ LeftCut' = LeftCut /\ (Printable <=> Printable')
         /\ (Known <=> Known')
         /\ \A k \in Int : FirstRow(k)' = FirstRow(k) /\ LastRow(k)' = LastRow(k)
         /\ \A y, x \in Int : SeenPixel(y, x)' = SeenPixel(y, x)
         /\ \A d : DecoderInv(d)' <=> DecoderInv(d)
  <1>1. /\ PadLeft' = PadLeft /\ PadTop' = PadTop /\ PadRight' = PadRight
        /\ PadBottom' = PadBottom /\ AreaWidth' = AreaWidth /\ AreaHeight' = AreaHeight
    BY DEF PadLeft, PadTop, PadRight, PadBottom, AreaWidth, AreaHeight
  <1>2. PageWidth' = PageWidth /\ PageHeight' = PageHeight
    BY <1>1 DEF PageWidth, PageHeight
  <1>3. BufferSize' = BufferSize
    BY <1>2 DEF BufferSize
  <1>4. RowsToCache' = RowsToCache
    BY <1>3 DEF RowsToCache
  <1>5. InputRows' = InputRows
    BY <1>4 DEF InputRows
  <1>6. TopCut' = TopCut /\ LeftCut' = LeftCut /\ (Known <=> Known')
    BY DEF TopCut, LeftCut, Known
  <1>7. Printable <=> Printable'
    BY <1>5 DEF Printable, LosesLastSwath
  <1>8. \A k \in Int : FirstRow(k)' = FirstRow(k) /\ LastRow(k)' = LastRow(k)
    BY DEF FirstRow, LastRow
  <1>9. \A y, x \in Int : SeenPixel(y, x)' = SeenPixel(y, x)
    BY DEF SeenPixel, Seen, Decoder, TurnedPixel
  <1>10. \A d : DecoderInv(d)' <=> DecoderInv(d)
    BY <1>5 DEF DecoderInv
  <1> QED  BY <1>1, <1>2, <1>3, <1>4, <1>5, <1>6, <1>7, <1>8, <1>9, <1>10

(* So does what the call begins with.                                    *)
LEMMA SameCall ==
  ASSUME page' = page, c' = c, sent' = sent, req'.blank = req.blank
  PROVE  /\ StripeTotal' = StripeTotal /\ WhiteRows' = WhiteRows /\ FirstAsked' = FirstAsked
         /\ LeftToMake' = LeftToMake /\ ToMake' = ToMake
         /\ \A r, x \in Int : Ink(r, x)' = Ink(r, x)
  <1>1. StripeTotal' = StripeTotal /\ FirstAsked' = FirstAsked
    BY SamePage DEF StripeTotal, FirstAsked
  <1>2. WhiteRows' = WhiteRows
    BY <1>1, SamePage DEF WhiteRows
  <1>3. LeftToMake' = LeftToMake
    BY <1>1, SamePage DEF LeftToMake
  <1>4. ToMake' = ToMake
    BY <1>1, <1>3 DEF ToMake
  <1>5. \A r, x \in Int : Ink(r, x)' = Ink(r, x)
    <2>1. PadTop' = PadTop /\ TopCut' = TopCut /\ LeftCut' = LeftCut
      BY SamePage
    <2>2. ASSUME NEW r \in Int, NEW x \in Int PROVE Ink(r, x)' = Ink(r, x)
      BY <2>1 DEF Ink, SeenPixel, Seen, Decoder, TurnedPixel, ScaledPixel
    <2> QED  BY <2>2
  <1> QED  BY <1>1, <1>2, <1>3, <1>4, <1>5

(* The numbers of a call.                                                  *)
LEMMA CallIs ==
  ASSUME page \in Pages, c = OutputProperties(page), sent \in Nat, sent < PageHeight,
         req.blank = WhiteRows
  PROVE  /\ StripeTotal \in 1 .. StripHeight /\ sent + StripeTotal <= PageHeight
         /\ StripHeight \in Nat \ {0}
         /\ req.blank \in 0 .. StripeTotal /\ PageWidth \in Nat \ {0} /\ PageHeight \in Nat
         /\ TopCut \in Nat /\ LeftCut \in Nat
         /\ LeftCut + AreaWidth <= c.scaledW /\ TopCut + AreaHeight <= c.scaledH
         /\ TopCut > 0 => c.scale # "autoFit" /\ c.scaledH > c.printH
         /\ LeftCut > 0 => c.scaledW > c.printW
         /\ FirstAsked \in Int
         /\ req.blank < StripeTotal =>
              /\ FirstAsked \in 0 .. AreaHeight - 1
              /\ req.blank > 0 => FirstAsked = 0
              /\ sent + req.blank >= PadTop
              /\ req.blank > 0 => sent + req.blank = PadTop
              /\ ToMake \in 1 .. StripeTotal - req.blank
              /\ ToMake <= LeftToMake /\ LeftToMake \in Int
              /\ ToMake = StripeTotal - req.blank \/ ToMake = LeftToMake
              /\ c.scale = "none" => FirstAsked + ToMake <= AreaHeight
              /\ c.scale # "none" => FirstAsked + TopCut + ToMake <= c.scaledH
              /\ ToMake < StripeTotal - req.blank => page.padAll
              /\ LeftToMake + FirstAsked >= AreaHeight
  <1>1. /\ AreaWidth \in Nat \ {0} /\ AreaHeight \in Nat \ {0}
        /\ AreaWidth = Least(c.scaledW, c.printW)
        /\ AreaHeight = Least(c.scaledH, c.printH)
        /\ PadLeft \in Nat /\ PadTop \in Nat /\ PadRight \in Nat /\ PadBottom \in Nat
        /\ PageWidth = PadLeft + AreaWidth + PadRight
        /\ PageHeight = PadTop + AreaHeight + PadBottom
        /\ ~ page.padAll => PadRight = 0 /\ PadBottom = 0
    BY LayoutIs
  <1>2. /\ c.scaledW \in Nat \ {0} /\ c.scaledH \in Nat \ {0}
        /\ c.printW \in Nat \ {0} /\ c.printH \in Nat \ {0}
        /\ StripHeight \in Nat \ {0}
        /\ c.scale \in {"none", "autoScale", "autoFit"}
        /\ c.scale = "autoFit" => c.scaledH <= c.printH
    BY SizesAre, PropertiesAre, ScaledIs, StripeAssumption
  <1>3. /\ StripeTotal \in 1 .. StripHeight /\ sent + StripeTotal <= PageHeight
    BY <1>1, <1>2 DEF StripeTotal, Least
  <1>4. req.blank \in 0 .. StripeTotal
    BY <1>1, <1>3 DEF WhiteRows, Least
  <1>5. /\ TopCut \in Nat /\ TopCut + AreaHeight <= c.scaledH
        /\ TopCut > 0 => c.scale # "autoFit" /\ c.scaledH > c.printH
    BY <1>1, <1>2 DEF TopCut, Greatest, Least
  <1>6. /\ LeftCut \in Nat /\ LeftCut + AreaWidth <= c.scaledW
        /\ LeftCut > 0 => c.scaledW > c.printW
    BY <1>1, <1>2 DEF LeftCut, Greatest, Least
  <1>7. FirstAsked \in Int
    BY <1>1, <1>4 DEF FirstAsked
  <1>8. ASSUME req.blank < StripeTotal
        PROVE  /\ FirstAsked \in 0 .. AreaHeight - 1
               /\ req.blank > 0 => FirstAsked = 0
               /\ sent + req.blank >= PadTop
               /\ req.blank > 0 => sent + req.blank = PadTop
    BY <1>1, <1>3, <1>4, <1>8 DEF FirstAsked, WhiteRows, Least
  <1>9. ASSUME req.blank < StripeTotal
        PROVE  /\ LeftToMake \in Int /\ LeftToMake >= 1
               /\ LeftToMake + FirstAsked >= AreaHeight
               /\ c.scale = "none" => FirstAsked + LeftToMake = AreaHeight
               /\ c.scale # "none" => FirstAsked + TopCut + LeftToMake = c.scaledH
    BY <1>1, <1>2, <1>5, <1>8, <1>9 DEF LeftToMake
  <1>10. ASSUME req.blank < StripeTotal
         PROVE  /\ ToMake \in 1 .. StripeTotal - req.blank /\ ToMake <= LeftToMake
                /\ ToMake = StripeTotal - req.blank \/ ToMake = LeftToMake
    BY <1>3, <1>4, <1>9, <1>10 DEF ToMake, Least
  <1>11. ASSUME req.blank < StripeTotal, ToMake < StripeTotal - req.blank
         PROVE  page.padAll
    <2>1. ToMake = LeftToMake
      BY <1>3, <1>4, <1>10, <1>11
    <2>2. sent + req.blank = PadTop + FirstAsked
      BY <1>1, <1>4, <1>7 DEF FirstAsked
    <2> QED  BY <1>1, <1>3, <1>4, <1>9, <1>8, <1>11, <2>1, <2>2
  <1>12. ASSUME req.blank < StripeTotal
         PROVE  /\ c.scale = "none" => FirstAsked + ToMake <= AreaHeight
                /\ c.scale # "none" => FirstAsked + TopCut + ToMake <= c.scaledH
    BY <1>1, <1>2, <1>3, <1>4, <1>5, <1>8, <1>9, <1>10, <1>12
  <1> QED  BY <1>1, <1>2, <1>3, <1>4, <1>5, <1>6, <1>7, <1>8, <1>9, <1>10, <1>11, <1>12

(* The first row needed is not behind the last.                          *)
LEMMA FirstBeforeLast ==
  ASSUME page \in Pages, c = OutputProperties(page), c.scale # "none",
         NEW s \in 0 .. c.scaledH - 1, NEW e \in s .. c.scaledH - 1
  PROVE  FirstRow(s) <= LastRow(e) /\ FirstRow(s) \in 0 .. c.srcH - 1
         /\ LastRow(e) \in 0 .. c.srcH - 1
  <1>1. /\ Num \in Nat /\ Den \in Nat \ {0} /\ Extra \in {0, 1} /\ c.scaledH \in Nat \ {0}
        /\ FirstRow(s) = (s * Num) \div Den /\ Num = c.srcH - 1 + Extra
        /\ c.srcH \in Nat \ {0}
    BY FactorsAre
  <1>2. /\ LastRow(s) = RoundedUp((s + Extra) * Num, Den) - Extra
        /\ LastRow(s) \in 0 .. c.srcH - 1 /\ FirstRow(s) \in 0 .. c.srcH - 1
    BY RowsAre
  <1>3. LastRow(e) \in 0 .. c.srcH - 1 /\ LastRow(s) <= LastRow(e)
    BY <1>1, RowsAre, RowsGrow
  <1> DEFINE a == s * Num
             b == (s + Extra) * Num
             q == a \div Den
             u == RoundedUp(b, Den)
  <1>4. a \in Int /\ b \in Int /\ b = a + Extra * Num /\ Extra * Num \in Int
    BY <1>1
  <1>5. Extra = 0 => b = a
    BY <1>1, <1>4
  <1>6. Extra = 1 => a < b
    <2> SUFFICES ASSUME Extra = 1 PROVE a < b
      OBVIOUS
    <2>1. Extra * Num = Num /\ Num >= 1
      BY <1>1
    <2> HIDE DEF a, b
    <2> QED  BY <1>1, <1>4, <2>1
  <1> HIDE DEF a, b
  <1>7. q \in Int /\ Den * q <= a /\ Den * q \in Int
    BY <1>1, <1>4, Division
  <1>8. u \in Int /\ b \div Den <= u
    BY <1>1, <1>4, RoundingUp
  <1>9. Extra = 1 => q < u
    <2> HIDE DEF q
    <2>1. Extra = 1 => Den * q < b
      BY <1>4, <1>6, <1>7
    <2> QED  BY <1>1, <1>4, <1>7, <2>1, RoundedUpIs
  <1>10. q <= u - Extra
    BY <1>1, <1>5, <1>7, <1>8, <1>9
  <1>11. FirstRow(s) = q /\ LastRow(s) = u - Extra
    BY <1>1, <1>2 DEF a, b
  <1> QED  BY <1>2, <1>3, <1>10, <1>11

(* What the scaler is asked for in a call.                                 *)
LEMMA NeededIs ==
  ASSUME page \in Pages, c = OutputProperties(page), sent \in Nat, sent < PageHeight,
         req.blank = WhiteRows, ToScale
  PROVE  \E s \in 0 .. req.at, e \in req.at + ToMake - 1 .. c.scaledH - 1 :
           /\ req.at \in 0 .. c.scaledH - 1 /\ StripeRows = ToMake
           /\ Needed.first = FirstRow(s) /\ Needed.last = LastRow(e) /\ Needed.start = s
           /\ Needed.first \in Nat /\ Needed.last \in 0 .. c.srcH - 1
           /\ Needed.first <= Needed.last
           /\ Needed.last - Needed.first + 1 <= c.winRows /\ c.winRows \in Nat
           /\ Needed.offset = req.at - s /\ Needed.offset \in {0, 1}
           /\ Needed.offset = 1 => ToMake = 1
           /\ e <= req.at + ToMake
           /\ ToMake + Needed.offset <= Needed.rows /\ Needed.rows \in Nat
           /\ req.blank + ToMake + Needed.offset <= c.outRows /\ c.outRows \in Nat
  <1> DEFINE at == req.at
             last == at + ToMake - 1
             s == StartOf(at, last)
             e == EndOf(at, last)
  <1>1. /\ StripeTotal \in 1 .. StripHeight /\ StripHeight \in Nat \ {0}
        /\ req.blank \in 0 .. StripeTotal /\ req.blank < StripeTotal
        /\ FirstAsked \in 0 .. AreaHeight - 1 /\ AreaHeight \in Nat
        /\ req.blank > 0 => FirstAsked = 0
        /\ ToMake \in 1 .. StripeTotal - req.blank
        /\ FirstAsked + TopCut + ToMake <= c.scaledH /\ TopCut \in Nat
        /\ TopCut > 0 => c.scale # "autoFit" /\ c.scaledH > c.printH
        /\ c.scaledH \in Nat \ {0}
    <2>1. /\ c.scale # "none" /\ req.blank < StripeTotal
      BY DEF ToScale, Asked
    <2>2. AreaHeight \in Nat /\ c.scaledH \in Nat \ {0}
      BY LayoutIs, SizesAre
    <2> QED  BY <2>1, <2>2, CallIs
  <1>2. c.scale # "none" /\ at = FirstAsked + TopCut /\ req.scaled = ToMake
    BY DEF ToScale
  <1>3. at \in 0 .. c.scaledH - 1 /\ last \in at .. c.scaledH - 1
    BY <1>1, <1>2
  <1>4. StripeRows = ToMake
    BY <1>1, <1>2 DEF StripeRows, Least
  <1>5. Needed = ScalingRows(c.mode, c.srcH, c.scaledH, at, last)
    <2>1. Least(at + StripeRows - 1, c.scaledH - 1) = last
      BY <1>1, <1>3, <1>4 DEF Least
    <2> HIDE DEF last
    <2> QED  BY <2>1 DEF Needed
  <1>6. /\ Needed.first = FirstRow(s) /\ Needed.last = LastRow(e) /\ Needed.start = s
        /\ Needed.offset = at - s /\ Needed.rows \in {e - s + 1, e - s + 2}
        /\ s \in 0 .. at /\ at - 1 <= s /\ (at # last => s = at)
        /\ e \in last .. c.scaledH - 1 /\ e <= last + 1 /\ s <= e
        /\ (e = last + 1 => at = 0 /\ last = 0)
    <2> HIDE DEF at, last, s, e
    <2>1. LET n == ScalingRows(c.mode, c.srcH, c.scaledH, at, last)
          IN /\ n.first = FirstRow(s) /\ n.last = LastRow(e) /\ n.start = s
             /\ n.offset = at - s /\ n.rows \in {e - s + 1, e - s + 2}
             /\ s \in 0 .. at /\ at - 1 <= s /\ (at # last => s = at)
             /\ e \in last .. c.scaledH - 1 /\ e <= last + 1 /\ s <= e
             /\ (e = last + 1 => at = 0 /\ last = 0)
      BY <1>2, <1>3, ScalingRowsAre DEF s, e
    <2> QED  BY <1>5, <2>1
  <1>7. FirstEnd = EndOf(0, Least(StripHeight - 1, c.scaledH - 1))
        /\ e = EndOf(at, last)
    BY DEF FirstEnd
  <1>8. e - s <= FirstEnd /\ FirstEnd \in Nat
    <2>0. FirstEnd \in 0 .. c.scaledH - 1
      BY <1>2, RoomIs
    <2>1. FirstEnd >= Least(StripHeight - 1, c.scaledH - 1)
          /\ (c.scaledH > 1 => FirstEnd >= 1)
      BY <1>1, <1>7 DEF EndOf, Least
    <2>2. CASE at # last
      <3>1. e = last /\ s = at
        BY <1>1, <1>3, <1>6, <2>2
      <3>2. last - at <= StripHeight - 1 /\ last - at <= c.scaledH - 1
        BY <1>1, <1>2, <1>3
      <3>3. Least(StripHeight - 1, c.scaledH - 1) >= last - at
            /\ Least(StripHeight - 1, c.scaledH - 1) \in Int
        BY <1>1, <1>3, <3>2 DEF Least
      <3> HIDE DEF last, at, e, s
      <3> QED  BY <1>3, <2>0, <2>1, <3>1, <3>3
    <2>3. CASE at = last
      <3> HIDE DEF last, at, e, s
      <3>1. e - s \in {0, 1} /\ (e - s = 1 => c.scaledH > 1)
        BY <1>1, <1>3, <1>6, <2>3
      <3> QED  BY <2>0, <2>1, <3>1
    <2> QED  BY <2>2, <2>3
  <1> HIDE DEF s, e
  <1>9. s \in 0 .. c.scaledH - 1 /\ e \in s .. c.scaledH - 1
    BY <1>1, <1>3, <1>6
  <1>10. /\ Needed.first \in Nat /\ Needed.last \in 0 .. c.srcH - 1
         /\ Needed.first <= Needed.last
    BY <1>2, <1>6, <1>9, FirstBeforeLast
  <1>11. Needed.last - Needed.first + 1 <= c.winRows /\ c.winRows \in Nat
    BY <1>2, <1>6, <1>8, <1>9, WindowFits, RoomIs
  <1>12. /\ Needed.offset \in {0, 1} /\ (Needed.offset = 1 => ToMake = 1 /\ at > 0)
         /\ e <= at + ToMake
         /\ ToMake + Needed.offset <= Needed.rows /\ Needed.rows \in Nat
    BY <1>1, <1>3, <1>6
  <1>13. req.blank + ToMake + Needed.offset <= c.outRows /\ c.outRows \in Nat
    <2>1. /\ c.outRows \in Nat /\ c.outRows >= StripHeight
          /\ c.scaledH >= StripHeight => c.outRows >= StripHeight + 1
      BY <1>2, RoomIs
    <2>2. CASE Needed.offset = 0 \/ req.blank + ToMake < StripHeight
      BY <1>1, <1>12, <2>1, <2>2
    <2>3. CASE Needed.offset = 1 /\ req.blank + ToMake >= StripHeight
      <3>1. ToMake = 1 /\ at > 0 /\ req.blank = StripHeight - 1
        BY <1>1, <1>12, <2>3
      <3>2. c.scaledH >= StripHeight
        <4>1. CASE req.blank = 0
          BY <1>1, <3>1, <4>1
        <4>2. CASE req.blank > 0
          <5>1. TopCut > 0
            BY <1>1, <1>2, <3>1, <4>2
          <5>2. c.scale = "autoScale" /\ c.scaledH > c.printH
            BY <1>1, <1>2, <5>1, PropertiesAre
          <5>3. c.printH >= StripHeight /\ c.printH \in Nat
            BY <5>2, SizesAre
          <5> QED  BY <1>1, <5>2, <5>3
        <4> QED  BY <1>1, <4>1, <4>2
      <3> QED  BY <1>1, <2>1, <2>3, <3>1, <3>2
    <2> QED  BY <1>1, <1>12, <2>2, <2>3
  <1> QED  BY <1>3, <1>4, <1>6, <1>10, <1>11, <1>12, <1>13

(* A window kept for a stripe can be kept for a later one.                 *)
LEMMA WindowKept ==
  ASSUME NEW a \in Int, NEW b \in Int, a <= b, WindowBefore(a), c.scaledH \in Nat
  PROVE  WindowBefore(b)
  BY DEF WindowBefore

(* The rows in the window stay those of the image.                       *)
LEMMA SameWindow ==
  ASSUME page' = page, c' = c, win' = win, NEW b \in Int
  PROVE  (WindowBefore(b)' <=> WindowBefore(b)) /\ (WindowRight' <=> WindowRight)
  <1>1. WindowRight' <=> WindowRight
    BY DEF WindowRight, SeenPixel, Seen, Decoder, TurnedPixel
  <1>2. \A k : FirstRow(k)' = FirstRow(k) /\ LastRow(k)' = LastRow(k)
    BY DEF FirstRow, LastRow
  <1> QED  BY <1>1, <1>2 DEF WindowBefore

(* What is expected of a page stays the same.                            *)
LEMMA SameExpected ==
  ASSUME page' = page, c' = c, NEW row \in Int, NEW x \in Int
  PROVE  Made(row, x)' = Made(row, x) /\ (Overprinted(row)' <=> Overprinted(row))
  <1>1. /\ PadLeft' = PadLeft /\ PadTop' = PadTop
        /\ AreaWidth' = AreaWidth /\ AreaHeight' = AreaHeight
    BY SamePage
  <1>2. TopCut' = TopCut /\ LeftCut' = LeftCut
    BY SamePage
  <1> QED  BY <1>1, <1>2 DEF Made, Overprinted, SeenPixel, Seen, Decoder, TurnedPixel, ScaledPixel

(***************************************************************************)
(* The steps of a call.                                                    *)
(***************************************************************************)

(* The buffer holds the rows of a stripe, and those of the scaler behind   *)
(* the white ones.                                                         *)
LEMMA InBuffer ==
  ASSUME page \in Pages, c = OutputProperties(page), NEW r \in Nat, NEW k \in Nat, NEW x \in Nat,
         r + k < c.outRows, x < PageWidth \/ x < c.scaledW
  PROVE  /\ r * PageWidth + (k * c.scaledW + x) \in 0 .. BufferSize - 1
         /\ r * PageWidth \in Nat /\ k * c.scaledW \in Nat
  <1> DEFINE most == Greatest(Greatest(c.scaledW, c.scaledH), PageWidth)
             n == c.outRows
             w == PageWidth
             v == c.scaledW
  <1>1. /\ w \in Nat /\ v \in Nat /\ n \in Nat /\ c.scaledH \in Nat
    BY LayoutIs, SizesAre, RoomIs
  <1>2. most \in Nat /\ w <= most /\ v <= most
    BY <1>1 DEF Greatest
  <1>3. BufferSize = most * n
    BY DEF BufferSize
  <1> HIDE DEF most, n
  <1>4. r * w <= r * most /\ r * w \in Int /\ r * most \in Int /\ k * v <= k * most
        /\ k * v \in Int /\ k * most \in Int
    <2>1. w * r <= most * r /\ w * r = r * w
      BY <1>1, <1>2, Grows
    <2>2. v * k <= most * k /\ v * k = k * v
      BY <1>1, <1>2, Grows
    <2>3. most * r = r * most /\ most * k = k * most
      BY <1>1, <1>2, Grows
    <2> HIDE DEF w, v
    <2> QED  BY <1>1, <1>2, <2>1, <2>2, <2>3
  <1>5. r * w >= 0 /\ k * v >= 0
    <2>1. 0 * w <= r * w /\ 0 * v <= k * v
      BY <1>1, Grows
    <2> QED  BY <1>1, <2>1
  <1>6. (r + k) * most + most <= n * most /\ (r + k) * most = r * most + k * most
        /\ n * most = most * n /\ most * n \in Int
    <2>1. (r + k) * most + most <= n * most
      BY <1>1, <1>2, RowsApart DEF n
    <2> QED  BY <1>1, <1>2, <2>1
  <1> DEFINE a == r * w
             b == k * v
             aa == r * most
             bb == k * most
             t == most * n
  <1>7. /\ a \in Int /\ b \in Int /\ aa \in Int /\ bb \in Int /\ t \in Int
        /\ 0 <= a /\ 0 <= b /\ a <= aa /\ b <= bb /\ aa + bb + most <= t
    BY <1>4, <1>5, <1>6
  <1>8. x < most
    BY <1>1, <1>2
  <1> HIDE DEF a, b, aa, bb, t
  <1>9. a + (b + x) \in 0 .. t - 1
    BY <1>2, <1>7, <1>8
  <1> QED  BY <1>3, <1>7, <1>9 DEF a, b, t

(* A row of the stripe is in the buffer.                                 *)
LEMMA RowInBuffer ==
  ASSUME page \in Pages, c = OutputProperties(page), NEW r \in Nat, NEW x \in Nat,
         r < c.outRows, x < PageWidth
  PROVE  r * PageWidth + x \in 0 .. BufferSize - 1
  <1>1. c.scaledW \in Nat /\ c.outRows \in Nat
    BY SizesAre, RoomIs
  <1>2. r * PageWidth + (0 * c.scaledW + x) \in 0 .. BufferSize - 1
    <2>1. 0 \in Nat /\ r + 0 < c.outRows
      BY <1>1
    <2> QED  BY <2>1, InBuffer
  <1>3. 0 * c.scaledW + x = x
    BY <1>1
  <1> QED  BY <1>2, <1>3

(* What is known in a call that goes on.                                   *)
LEMMA CallFacts ==
  ASSUME StripesInv, pc \in InCall, req.rc # "error" \/ pc # "return"
  PROVE  /\ page \in Pages /\ c = OutputProperties(page) /\ HasHeader(page) /\ Known
         /\ Shapes /\ req.rc = "ok" /\ DecoderInv(dec) /\ CacheInv /\ Begun /\ CallInv
         /\ sent \in Nat /\ sent < PageHeight /\ req.blank = WhiteRows
  <1>1. pc \notin {"setup", "info", "page", "done"}
    BY DEF InCall
  <1>2. /\ page \in Pages /\ Known /\ c = OutputProperties(page) /\ HasHeader(page)
        /\ Shapes /\ (GoesOn \/ Stopped)
    BY <1>1 DEF StripesInv
  <1>3. GoesOn
    BY <1>1, <1>2 DEF Stopped
  <1>4. sent \in Nat
    BY <1>2 DEF Shapes
  <1> QED  BY <1>2, <1>3, <1>4 DEF GoesOn, Begun

(* The invariant of a page that goes on, or has stopped.                 *)
LEMMA GoOn ==
  ASSUME page \in Pages, c = OutputProperties(page), HasHeader(page), Known,
         page' = page, c' = c, Shapes', GoesOn' \/ Stopped'
  PROVE  StripesInv'
  <1>1. OutputProperties(page)' = OutputProperties(page') /\ (HasHeader(page)' <=> HasHeader(page'))
    OBVIOUS
  <1> QED  BY <1>1, SamePage DEF StripesInv

(* The plugin asks for a stripe.                                         *)
LEMMA RequestKeeps ==
  ASSUME StripesInv, Request
  PROVE  StripesInv'
  <1>1. /\ page \in Pages /\ c = OutputProperties(page) /\ HasHeader(page) /\ Known
        /\ Shapes /\ req.rc = "ok" /\ DecoderInv(dec) /\ CacheInv
        /\ sent < PageHeight /\ KeptForNext
    BY DEF Request, StripesInv, Stopped, GoesOn
  <1> DEFINE rows  == Least(PageHeight - sent, StripHeight)
             blank == IF sent < PadTop THEN Least(rows, PadTop - sent)
                      ELSE IF page.padAll /\ sent >= PadTop + AreaHeight
                      THEN Least(rows, PageHeight - sent)
                      ELSE 0
  <1>2. /\ page' = page /\ c' = c /\ dec' = dec /\ cache' = cache /\ win' = win /\ sent' = sent
        /\ out' = [i \in 0 .. BufferSize - 1 |-> IF i < blank * PageWidth THEN Blank ELSE Stale]
        /\ pc' = (IF rows = blank THEN "return"
                  ELSE IF c.scale = "none" THEN "plain" ELSE "scaling")
        /\ req' = [NoRequest EXCEPT !.start = sent + blank, !.rows = rows - blank,
                                    !.height = blank, !.blank = blank,
                                    !.at = sent + blank - PadTop]
    BY Zenon DEF Request
  <1>3. /\ AreaWidth \in Nat \ {0} /\ AreaHeight \in Nat \ {0}
        /\ PadLeft \in Nat /\ PadTop \in Nat /\ PadRight \in Nat /\ PadBottom \in Nat
        /\ PageWidth = PadLeft + AreaWidth + PadRight
        /\ PageHeight = PadTop + AreaHeight + PadBottom
        /\ StripHeight \in Nat \ {0} /\ sent \in Nat /\ c.scaledH \in Nat \ {0}
        /\ c.printH \in Nat
        /\ c.outRows \in Nat /\ c.outRows >= StripHeight
    BY <1>1, LayoutIs, StripeAssumption, SizesAre, RoomIs DEF Shapes
  <1>4. rows \in 1 .. StripHeight /\ sent + rows <= PageHeight
    BY <1>1, <1>3 DEF Least
  <1> HIDE DEF rows
  <1>5. /\ blank \in 0 .. rows
        /\ sent < PadTop => sent + blank <= PadTop
        /\ sent >= PadTop => blank = 0 \/ sent >= PadTop + AreaHeight
        /\ sent >= PadTop /\ page.padAll /\ sent >= PadTop + AreaHeight => blank = rows
        /\ sent >= PadTop /\ ~ (page.padAll /\ sent >= PadTop + AreaHeight) => blank = 0
    BY <1>3, <1>4 DEF Least
  <1>6. StripeTotal' = rows /\ WhiteRows' = blank
    <2>1. StripeTotal' = rows
      BY <1>2, SamePage DEF StripeTotal, rows
    <2>2. /\ PadTop' = PadTop /\ PageHeight' = PageHeight /\ AreaHeight' = AreaHeight
      BY <1>2, SamePage
    <2>3. Least(rows, PageHeight - sent) = rows
      BY <1>3, <1>4 DEF Least
    <2> QED  BY <1>2, <2>1, <2>2, <2>3 DEF WhiteRows
  <1> HIDE DEF blank
  <1>7. /\ req' = [start |-> sent + blank, rows |-> rows - blank, height |-> blank,
                   blank |-> blank, at |-> sent + blank - PadTop, count |-> 0, y |-> 0,
                   got |-> 0, scaled |-> 0, moved |-> 0, rc |-> "ok"]
    BY <1>2 DEF NoRequest
  <1>8. Shapes'
    <2>1. /\ req' = [f \in ReqFields |-> req'[f]]
          /\ \A f \in ReqFields \ {"rc"} : req'[f] \in Int
      BY <1>3, <1>4, <1>5, <1>7 DEF ReqFields
    <2>2. DecoderShape(dec)' /\ (sent \in 0 .. PageHeight)'
      BY <1>1, <1>2, SamePage DEF Shapes, DecoderShape
    <2>3. /\ out' = [i \in DOMAIN out' |-> out'[i]]
          /\ \A i \in DOMAIN out' : out'[i] \in Colours
      BY <1>2 DEF Colours
    <2>4. pc' \in InCall \cup {"page", "done"}
      BY <1>2 DEF InCall
    <2> QED  BY <2>1, <2>2, <2>3, <2>4 DEF Shapes, ReqFields, Colours, InCall
  <1>9. \A r \in 0 .. blank - 1, x \in 0 .. PageWidth - 1 : out'[r * PageWidth + x] = Blank
    <2> TAKE r \in 0 .. blank - 1, x \in 0 .. PageWidth - 1
    <2>1. r * PageWidth + x \in 0 .. BufferSize - 1
      <3>1. r \in Nat /\ x \in Nat /\ r < c.outRows /\ x < PageWidth
        BY <1>3, <1>4, <1>5
      <3> QED  BY <1>1, <3>1, RowInBuffer
    <2>2. r * PageWidth + x < blank * PageWidth
      <3>1. r * PageWidth + PageWidth <= blank * PageWidth /\ r * PageWidth \in Int
            /\ blank * PageWidth \in Int
        BY <1>3, <1>4, <1>5, RowsApart
      <3> DEFINE a == r * PageWidth
                 b == blank * PageWidth
      <3>2. a \in Int /\ b \in Int /\ a + PageWidth <= b
        BY <3>1
      <3> HIDE DEF a, b
      <3>3. a + x < b
        BY <1>3, <3>2
      <3> QED  BY <3>3 DEF a, b
    <2> QED  BY <1>2, <2>1, <2>2
  <1>10. Begun'
    <2>1. (sent < PageHeight)' /\ (req.blank = WhiteRows)'
      BY <1>1, <1>2, <1>6, <1>7, SamePage
    <2>2. (DOMAIN out = 0 .. BufferSize - 1)'
      BY <1>2, SamePage
    <2>3. req'.blank = blank /\ PageWidth' = PageWidth
      BY <1>2, <1>7, SamePage
    <2> QED  BY <1>9, <2>1, <2>2, <2>3 DEF Begun
  <1>11. /\ FirstAsked' = sent + blank - PadTop /\ TopCut' = TopCut /\ TopCut \in Nat
         /\ PadTop' = PadTop
    <2>1. TopCut \in Nat
      BY <1>3 DEF TopCut, Greatest
    <2> QED  BY <1>2, <1>7, <2>1, SamePage DEF FirstAsked
  <1>12. PICK b \in Int : b = sent + blank - PadTop + TopCut /\ WindowBefore(b)'
    <2>1. PICK a \in Int : a = sent - PadTop + TopCut /\ WindowBefore(a)
      BY <1>1 DEF KeptForNext
    <2>0. PICK b \in Int : b = a + blank
      BY <1>4, <1>5
    <2>2. b = sent + blank - PadTop + TopCut /\ a <= b
      BY <1>3, <1>4, <1>5, <1>11, <2>0, <2>1
    <2>3. WindowBefore(b)
      BY <1>3, <2>1, <2>2, WindowKept
    <2>4. WindowBefore(b)'
      BY <1>2, <2>2, <2>3, SameWindow
    <2> QED  BY <2>2, <2>4
  <1>13. CallInv'
    <2>1. CASE rows = blank
      <3>1. pc' = "return"
        BY <1>2, <2>1
      <3>2. (req.height \in 1 .. StripeTotal)'
        BY <1>4, <1>6, <1>7, <2>1
      <3>3. KeptAfterReturn'
        <4>1. sent' + req'.height - PadTop' + TopCut' = b
          BY <1>2, <1>7, <1>11, <1>12
        <4> QED  BY <1>12, <4>1 DEF KeptAfterReturn
      <3>4. StripeInv'
        <4> SUFFICES ASSUME NEW r \in 0 .. req'.height - 1, NEW x \in 0 .. PageWidth' - 1,
                            NEW row \in Nat, row = sent' + r
                     PROVE  out'[r * PageWidth' + x] = Made(row, x)'
          BY DEF StripeInv
        <4>1. r \in 0 .. blank - 1 /\ x \in 0 .. PageWidth - 1 /\ PageWidth' = PageWidth
          BY <1>2, <1>7, SamePage
        <4>2. out'[r * PageWidth' + x] = Blank
          BY <1>9, <4>1
        <4>3. row - PadTop \notin 0 .. AreaHeight - 1
          <5>1. row = sent + r /\ r \in Nat /\ r < blank /\ blank \in Int
            BY <1>2, <1>4, <1>5, <4>1
          <5> QED  BY <1>3, <1>4, <1>5, <5>1
        <4>4. Made(row, x) = Blank
          BY <4>3 DEF Made
        <4>5. Made(row, x)' = Made(row, x)
          BY <1>2, <4>1, SameExpected
        <4> QED  BY <4>2, <4>4, <4>5
      <3> QED  BY <3>1, <3>2, <3>3, <3>4 DEF CallInv
    <2>2. CASE rows # blank
      <3>1. pc' = (IF c.scale = "none" THEN "plain" ELSE "scaling")
        BY <1>2, <2>2
      <3>2. Asked'
        BY <1>4, <1>5, <1>6, <1>7, <2>2 DEF Asked
      <3>3. Accounts(0)'
        BY <1>2, <1>3, <1>4, <1>5, <1>6, <1>7 DEF Accounts
      <3>4. req'.at = FirstAsked'
        BY <1>7, <1>11
      <3>5. KeptForCall'
        <4>1. FirstAsked' + TopCut' = b
          BY <1>11, <1>12
        <4> QED  BY <1>12, <4>1 DEF KeptForCall
      <3> QED  BY <1>2, <3>1, <3>2, <3>3, <3>4, <3>5 DEF CallInv
    <2> QED  BY <2>1, <2>2
  <1>14. GoesOn'
    <2>1. req'.rc = "ok" /\ pc' \notin {"page", "done", "fill"}
      <3>1. pc' \in {"return", "plain", "scaling"}
        BY <1>2
      <3> QED  BY <1>7, <3>1
    <2>2. DecoderInv(dec)'
      BY <1>1, <1>2, SamePage DEF DecoderInv
    <2>3. CacheInv'
      <3>1. pc # "fill"
        BY DEF Request
      <3> QED  BY <1>1, <1>2, <2>1, <3>1 DEF CacheInv
    <2> QED  BY <1>10, <1>13, <2>1, <2>2, <2>3 DEF GoesOn
  <1> QED  BY <1>1, <1>2, <1>8, <1>14, GoOn

(* What a step of a call leaves as it is, it need not say.                 *)
LEMMA CallStep ==
  ASSUME StripesInv, pc \in InCall \ {"return"}, page' = page, c' = c, sent' = sent,
         req'.blank = req.blank, req'.rc = "ok", req' = [f \in ReqFields |-> req'[f]],
         \A f \in ReqFields \ {"rc"} : req'[f] \in Int,
         pc' \in InCall, CallInv',
         dec' = dec \/ (DecoderShape(dec') /\ DecoderInv(dec')),
         (cache' = cache /\ pc # "fill" /\ pc' # "fill") \/ CacheInv',
         \/ out' = out
         \/ /\ DOMAIN out' = DOMAIN out /\ out' = [i \in DOMAIN out |-> out'[i]]
            /\ \A i \in DOMAIN out : out'[i] \in Colours
            /\ \A r \in 0 .. req.blank - 1, x \in 0 .. PageWidth - 1 :
                 out'[r * PageWidth + x] = Blank
  PROVE  StripesInv'
  <1>1. /\ page \in Pages /\ c = OutputProperties(page) /\ HasHeader(page) /\ Known
        /\ Shapes /\ DecoderInv(dec) /\ CacheInv /\ Begun
    BY CallFacts
  <1>2. DecoderShape(dec') /\ DecoderInv(dec')
    BY <1>1 DEF Shapes
  <1>3. DecoderShape(dec)' /\ DecoderInv(dec)'
    BY <1>2, SamePage DEF DecoderShape, DecoderInv
  <1>4. CacheInv'
    BY <1>1 DEF CacheInv
  <1>5. /\ DOMAIN out' = DOMAIN out /\ out' = [i \in DOMAIN out' |-> out'[i]]
        /\ \A i \in DOMAIN out' : out'[i] \in Colours
    BY <1>1 DEF Shapes
  <1>6. Begun'
    <2>1. (sent < PageHeight)' /\ (req.blank = WhiteRows)'
      BY <1>1, SamePage, SameCall DEF Begun
    <2>2. (DOMAIN out = 0 .. BufferSize - 1)'
      BY <1>1, <1>5, SamePage DEF Begun
    <2>3. PageWidth' = PageWidth
      BY SamePage
    <2>4. \A r \in 0 .. req.blank - 1, x \in 0 .. PageWidth - 1 :
                 out'[r * PageWidth + x] = Blank
      BY <1>1 DEF Begun
    <2> QED  BY <2>1, <2>2, <2>3, <2>4 DEF Begun
  <1>7. Shapes'
    <2>1. (sent \in 0 .. PageHeight)'
      BY <1>1, SamePage DEF Shapes
    <2> QED  BY <1>3, <1>5, <2>1 DEF Shapes, ReqFields, Colours, InCall, DecoderShape
  <1>8. GoesOn'
    BY <1>3, <1>4, <1>6 DEF GoesOn, InCall
  <1> QED  BY <1>1, <1>7, <1>8, GoOn

(* The fields of a call.                                                 *)
LEMMA ReqShape ==
  ASSUME StripesInv, pc \in InCall
  PROVE  req = [start |-> req.start, rows |-> req.rows, height |-> req.height,
                blank |-> req.blank, at |-> req.at, count |-> req.count, y |-> req.y,
                got |-> req.got, scaled |-> req.scaled, moved |-> req.moved, rc |-> req.rc]
         /\ {req.start, req.rows, req.height, req.blank, req.at, req.count, req.y, req.got,
             req.scaled, req.moved} \subseteq Int
  <1>1. Shapes
    BY DEF StripesInv, InCall
  <1> QED  BY <1>1 DEF Shapes, ReqFields

(* The rows of a stripe without scaling.                                 *)
LEMMA PlainKeeps ==
  ASSUME StripesInv, Plain
  PROVE  StripesInv'
  <1>1. /\ pc = "plain" /\ pc' = "decode"
        /\ page' = page /\ c' = c /\ dec' = dec /\ cache' = cache /\ win' = win
        /\ out' = out /\ sent' = sent
        /\ req' = [req EXCEPT !.count = IF req.at + req.rows > AreaHeight
                                        THEN AreaHeight - req.at ELSE req.rows,
                              !.y = req.at + c.rowOff, !.got = 0]
    BY DEF Plain
  <1>2. /\ page \in Pages /\ c = OutputProperties(page) /\ CallInv /\ req.rc = "ok"
        /\ sent \in Nat /\ sent < PageHeight /\ req.blank = WhiteRows
    BY <1>1, CallFacts DEF InCall
  <1>3. Asked /\ Accounts(0) /\ req.at = FirstAsked /\ c.scale = "none"
    BY <1>1, <1>2 DEF CallInv
  <1>4. /\ req.blank < StripeTotal /\ req.blank \in Nat /\ StripeTotal \in Nat
        /\ FirstAsked \in Nat /\ ToMake \in Nat
        /\ ToMake <= StripeTotal - req.blank /\ ToMake <= AreaHeight - FirstAsked
        /\ ToMake = StripeTotal - req.blank \/ ToMake = AreaHeight - FirstAsked
        /\ AreaHeight \in Nat /\ c.rowOff \in Nat
    <2>1. AreaHeight \in Nat /\ c.rowOff \in Nat
      BY <1>2, LayoutIs
    <2>2. req.blank < StripeTotal /\ LeftToMake = AreaHeight - FirstAsked
      BY <1>3 DEF Asked, LeftToMake
    <2> QED  BY <1>2, <1>3, <2>1, <2>2, CallIs
  <1>5. /\ req.height = req.blank /\ req.start = sent + req.height
        /\ req.rows = StripeTotal - req.height
    BY <1>3, <1>4 DEF Accounts
  <1>6. (IF req.at + req.rows > AreaHeight THEN AreaHeight - req.at ELSE req.rows) = ToMake
    BY <1>3, <1>4, <1>5
  <1>7. /\ req' = [start |-> req.start, rows |-> req.rows, height |-> req.height,
                   blank |-> req.blank, at |-> req.at, count |-> ToMake,
                   y |-> FirstAsked + c.rowOff, got |-> 0, scaled |-> req.scaled,
                   moved |-> req.moved, rc |-> "ok"]
        /\ {req.start, req.rows, req.height, req.blank, req.at, req.count, req.y, req.got,
            req.scaled, req.moved} \subseteq Int
    <2>1. /\ req = [start |-> req.start, rows |-> req.rows, height |-> req.height,
                    blank |-> req.blank, at |-> req.at, count |-> req.count, y |-> req.y,
                    got |-> req.got, scaled |-> req.scaled, moved |-> req.moved, rc |-> req.rc]
          /\ {req.start, req.rows, req.height, req.blank, req.at, req.count, req.y, req.got,
              req.scaled, req.moved} \subseteq Int
      BY <1>1, ReqShape DEF InCall
    <2>2. req' = [req EXCEPT !.count = ToMake, !.y = FirstAsked + c.rowOff, !.got = 0]
      BY <1>1, <1>3, <1>6
    <2> QED  BY <1>2, <2>1, <2>2
  <1>8. /\ StripeTotal' = StripeTotal /\ FirstAsked' = FirstAsked /\ ToMake' = ToMake
    BY <1>1, <1>7, SameCall
  <1>9. PlainInv'
    <2>1. Asked'
      BY <1>4, <1>7, <1>8 DEF Asked
    <2>2. Accounts(0)'
      BY <1>1, <1>4, <1>5, <1>7, <1>8 DEF Accounts
    <2>3. Inked(0)'
      BY <1>4, <1>7 DEF Inked
    <2> QED  BY <1>1, <1>3, <1>4, <1>5, <1>7, <1>8, <2>1, <2>2, <2>3 DEF PlainInv, Accounts, Inked
  <1>10. CallInv'
    BY <1>1, <1>9 DEF CallInv
  <1>11. /\ req'.blank = req.blank /\ req'.rc = "ok" /\ req' = [f \in ReqFields |-> req'[f]]
         /\ \A f \in ReqFields \ {"rc"} : req'[f] \in Int
    BY <1>4, <1>7 DEF ReqFields
  <1> QED  BY <1>1, <1>10, <1>11, CallStep DEF InCall

(* The rows of a stripe that is scaled.                                  *)
LEMMA ScalingKeeps ==
  ASSUME StripesInv, Scaling
  PROVE  StripesInv'
  <1> DEFINE from == req.at + TopCut
             n    == IF from + req.rows > c.scaledH THEN c.scaledH - from ELSE req.rows
  <1>1. /\ pc = "scaling" /\ pc' = "rows"
        /\ page' = page /\ c' = c /\ dec' = dec /\ cache' = cache /\ win' = win
        /\ out' = out /\ sent' = sent
        /\ req' = [req EXCEPT !.at = from, !.scaled = n]
    BY DEF Scaling, TopCut
  <1>2. /\ page \in Pages /\ c = OutputProperties(page) /\ CallInv /\ req.rc = "ok"
        /\ sent \in Nat /\ sent < PageHeight /\ req.blank = WhiteRows
    BY <1>1, CallFacts DEF InCall
  <1>3. Asked /\ Accounts(0) /\ req.at = FirstAsked /\ c.scale # "none" /\ KeptForCall
    BY <1>1, <1>2 DEF CallInv
  <1>4. /\ req.blank < StripeTotal /\ req.blank \in Nat /\ StripeTotal \in Nat
        /\ FirstAsked \in Nat /\ ToMake \in Nat /\ TopCut \in Nat
        /\ ToMake <= StripeTotal - req.blank /\ ToMake <= c.scaledH - TopCut - FirstAsked
        /\ ToMake = StripeTotal - req.blank \/ ToMake = c.scaledH - TopCut - FirstAsked
        /\ c.scaledH \in Nat
    <2>1. c.scaledH \in Nat
      BY <1>2, SizesAre
    <2>2. req.blank < StripeTotal /\ LeftToMake = c.scaledH - TopCut - FirstAsked
      BY <1>3 DEF Asked, LeftToMake
    <2> QED  BY <1>2, <1>3, <2>1, <2>2, CallIs
  <1>5. /\ req.height = req.blank /\ req.start = sent + req.height
        /\ req.rows = StripeTotal - req.height
    BY <1>3, <1>4 DEF Accounts
  <1>6. n = ToMake /\ from = FirstAsked + TopCut
    BY <1>3, <1>4, <1>5
  <1> HIDE DEF n, from
  <1>7. /\ req' = [start |-> req.start, rows |-> req.rows, height |-> req.height,
                   blank |-> req.blank, at |-> FirstAsked + TopCut, count |-> req.count,
                   y |-> req.y, got |-> req.got, scaled |-> ToMake,
                   moved |-> req.moved, rc |-> "ok"]
        /\ {req.start, req.rows, req.height, req.blank, req.at, req.count, req.y, req.got,
            req.scaled, req.moved} \subseteq Int
    <2>1. /\ req = [start |-> req.start, rows |-> req.rows, height |-> req.height,
                    blank |-> req.blank, at |-> req.at, count |-> req.count, y |-> req.y,
                    got |-> req.got, scaled |-> req.scaled, moved |-> req.moved, rc |-> req.rc]
          /\ {req.start, req.rows, req.height, req.blank, req.at, req.count, req.y, req.got,
              req.scaled, req.moved} \subseteq Int
      BY <1>1, ReqShape DEF InCall
    <2>2. req' = [req EXCEPT !.at = FirstAsked + TopCut, !.scaled = ToMake]
      BY <1>1, <1>6
    <2> QED  BY <1>2, <2>1, <2>2
  <1>8. /\ StripeTotal' = StripeTotal /\ FirstAsked' = FirstAsked /\ ToMake' = ToMake
        /\ TopCut' = TopCut
    BY <1>1, <1>7, SameCall, SamePage
  <1>9. ToScale'
    <2>1. Asked'
      BY <1>4, <1>7, <1>8 DEF Asked
    <2>2. Accounts(0)'
      BY <1>1, <1>4, <1>5, <1>7, <1>8 DEF Accounts
    <2>3. req'.at = FirstAsked' + TopCut' /\ req'.scaled = ToMake'
      BY <1>7, <1>8
    <2> QED  BY <1>1, <1>3, <2>1, <2>2, <2>3 DEF ToScale
  <1>10. KeptForCall'
    <2>1. PICK b \in Int : b = FirstAsked + TopCut /\ WindowBefore(b)
      BY <1>3 DEF KeptForCall
    <2>2. WindowBefore(b)'
      BY <1>1, <2>1, SameWindow
    <2> QED  BY <1>8, <2>1, <2>2 DEF KeptForCall
  <1>11. CallInv'
    BY <1>1, <1>9, <1>10 DEF CallInv
  <1>12. /\ req'.blank = req.blank /\ req'.rc = "ok" /\ req' = [f \in ReqFields |-> req'[f]]
         /\ \A f \in ReqFields \ {"rc"} : req'[f] \in Int
    BY <1>4, <1>7 DEF ReqFields
  <1> QED  BY <1>1, <1>11, <1>12, CallStep DEF InCall

(* All of them are made.                                                 *)
LEMMA ScaledAllKeeps ==
  ASSUME StripesInv, ScaledAll
  PROVE  StripesInv'
  <1>1. /\ pc = "rows" /\ pc' = "sides" /\ req.scaled <= 0
        /\ page' = page /\ c' = c /\ dec' = dec /\ cache' = cache /\ win' = win
        /\ out' = out /\ sent' = sent /\ req' = req
    BY DEF ScaledAll
  <1>2. /\ page \in Pages /\ c = OutputProperties(page) /\ CallInv /\ req.rc = "ok" /\ Shapes
        /\ sent \in Nat /\ sent < PageHeight /\ req.blank = WhiteRows
    BY <1>1, CallFacts DEF InCall
  <1>3. Asked /\ Accounts(ToMake) /\ Inked(ToMake) /\ KeptAfterCall
    <2>1. \/ ToScale
          \/ Asked /\ Accounts(ToMake) /\ Inked(ToMake) /\ KeptAfterCall
      BY <1>1, <1>2 DEF CallInv
    <2>2. ~ ToScale
      <3> SUFFICES ASSUME ToScale PROVE FALSE
        OBVIOUS
      <3>1. req.blank < StripeTotal /\ req.scaled = ToMake
        BY DEF ToScale, Asked
      <3>2. ToMake \in 1 .. StripeTotal - req.blank
        BY <1>2, <3>1, CallIs
      <3> QED  BY <1>1, <3>1, <3>2
    <2> QED  BY <2>1, <2>2
  <1>4. Asked' /\ Accounts(ToMake)'
    BY <1>1, <1>3, SameCall DEF Asked, Accounts
  <1>5. Inked(ToMake)'
    <2>1. \A r \in Int : InkedRow(r)' <=> InkedRow(r)
      <3> TAKE r \in Int
      <3>1. \A x \in Int : Ink(r, x)' = Ink(r, x)
        BY <1>1, SameCall
      <3>2. AreaWidth' = AreaWidth /\ PadLeft' = PadLeft /\ PageWidth' = PageWidth
        BY <1>1, SamePage
      <3> QED  BY <1>1, <3>1, <3>2 DEF InkedRow
    <2>2. ToMake' = ToMake /\ req'.blank = req.blank
      BY <1>1, SameCall
    <2> QED  BY <1>3, <2>1, <2>2 DEF Inked
  <1>6. KeptAfterCall'
    <2>1. PICK b \in Int : b = FirstAsked + TopCut + ToMake /\ WindowBefore(b)
      BY <1>3 DEF KeptAfterCall
    <2>2. WindowBefore(b)'
      BY <1>1, <2>1, SameWindow
    <2>3. FirstAsked' = FirstAsked /\ ToMake' = ToMake /\ TopCut' = TopCut
      BY <1>1, SameCall, SamePage
    <2> QED  BY <2>1, <2>2, <2>3 DEF KeptAfterCall
  <1>7. CallInv'
    BY <1>1, <1>4, <1>5, <1>6 DEF CallInv
  <1>8. /\ req'.blank = req.blank /\ req'.rc = "ok" /\ req' = [f \in ReqFields |-> req'[f]]
        /\ \A f \in ReqFields \ {"rc"} : req'[f] \in Int
    BY <1>1, <1>2 DEF Shapes
  <1> QED  BY <1>1, <1>7, <1>8, CallStep DEF InCall

(* The rows the scaler needs are settled by where it stands.             *)
LEMMA SameNeeded ==
  ASSUME c' = c, req'.at = req.at, req'.scaled = req.scaled
  PROVE  Needed' = Needed /\ StripeRows' = StripeRows
  BY DEF Needed, StripeRows

(* The rows made are in their places: the call goes on behind them.      *)
LEMMA PlacedKeeps ==
  ASSUME StripesInv, Placed
  PROVE  StripesInv'
  <1>1. /\ pc = "move" /\ pc' = "rows" /\ req.moved = StripeRows
        /\ page' = page /\ c' = c /\ dec' = dec /\ cache' = cache /\ win' = win
        /\ out' = out /\ sent' = sent
        /\ req' = [req EXCEPT !.rows = @ - StripeRows, !.scaled = @ - StripeRows,
                              !.at = @ + StripeRows, !.height = @ + StripeRows,
                              !.start = @ + StripeRows]
    BY DEF Placed
  <1>2. /\ page \in Pages /\ c = OutputProperties(page) /\ CallInv /\ req.rc = "ok"
        /\ sent \in Nat /\ sent < PageHeight /\ req.blank = WhiteRows
    BY <1>1, CallFacts DEF InCall
  <1>3. ToScale /\ WindowInv /\ Len(win.rows) = win.last - win.first + 1 /\ MoveInv
    BY <1>1, <1>2 DEF CallInv, FullWindow
  <1>4. Asked /\ Accounts(0) /\ req.at = FirstAsked + TopCut /\ c.scale # "none"
        /\ req.scaled = ToMake
    BY <1>3 DEF ToScale
  <1>5. /\ req.blank < StripeTotal /\ req.blank \in Nat /\ StripeTotal \in Nat
        /\ FirstAsked \in Nat /\ ToMake \in Nat /\ TopCut \in Nat /\ ToMake >= 1
        /\ ToMake <= StripeTotal - req.blank /\ FirstAsked + TopCut + ToMake <= c.scaledH
        /\ c.scaledH \in Nat
    <2>1. c.scaledH \in Nat
      BY <1>2, SizesAre
    <2>2. req.blank < StripeTotal
      BY <1>4 DEF Asked
    <2> QED  BY <1>2, <1>4, <2>1, <2>2, CallIs
  <1>6. PICK s \in 0 .. req.at, e \in req.at + ToMake - 1 .. c.scaledH - 1 :
          /\ StripeRows = ToMake
          /\ Needed.first = FirstRow(s) /\ Needed.last = LastRow(e)
          /\ e <= req.at + ToMake
    BY <1>2, <1>3, NeededIs
  <1>7. /\ req.height = req.blank /\ req.start = sent + req.height
        /\ req.rows = StripeTotal - req.height
    BY <1>4, <1>5 DEF Accounts
  <1>8. /\ req' = [start |-> req.start + ToMake, rows |-> req.rows - ToMake,
                   height |-> req.height + ToMake,
                   blank |-> req.blank, at |-> req.at + ToMake, count |-> req.count,
                   y |-> req.y, got |-> req.got, scaled |-> 0,
                   moved |-> req.moved, rc |-> "ok"]
        /\ {req.start, req.rows, req.height, req.blank, req.at, req.count, req.y, req.got,
            req.scaled, req.moved} \subseteq Int
    <2>1. /\ req = [start |-> req.start, rows |-> req.rows, height |-> req.height,
                    blank |-> req.blank, at |-> req.at, count |-> req.count, y |-> req.y,
                    got |-> req.got, scaled |-> req.scaled, moved |-> req.moved, rc |-> req.rc]
          /\ {req.start, req.rows, req.height, req.blank, req.at, req.count, req.y, req.got,
              req.scaled, req.moved} \subseteq Int
      BY <1>1, ReqShape DEF InCall
    <2>2. req' = [req EXCEPT !.rows = @ - ToMake, !.scaled = @ - ToMake,
                              !.at = @ + ToMake, !.height = @ + ToMake,
                              !.start = @ + ToMake]
      BY <1>1, <1>6
    <2>3. req.scaled - ToMake = 0
      BY <1>4, <1>5
    <2> QED  BY <1>2, <2>1, <2>2, <2>3
  <1>9. /\ StripeTotal' = StripeTotal /\ FirstAsked' = FirstAsked /\ ToMake' = ToMake
        /\ TopCut' = TopCut /\ \A r, x \in Int : Ink(r, x)' = Ink(r, x)
        /\ AreaWidth' = AreaWidth /\ PadLeft' = PadLeft /\ PageWidth' = PageWidth
    BY <1>1, <1>8, SameCall, SamePage
  <1>10. Asked' /\ Accounts(ToMake)'
    <2>1. Asked'
      BY <1>4, <1>8, <1>9 DEF Asked
    <2>2. Accounts(ToMake)'
      <3>1. sent' = sent
        BY <1>1
      <3>2. /\ req'.height = req.blank + ToMake /\ req'.blank = req.blank
            /\ req'.start = sent + req.blank + ToMake
            /\ req'.rows = StripeTotal - req.blank - ToMake
        BY <1>2, <1>5, <1>7, <1>8
      <3> QED  BY <1>2, <1>5, <1>9, <3>1, <3>2 DEF Accounts
    <2> QED  BY <2>1, <2>2
  <1>11. Inked(ToMake)'
    <2>1. ASSUME NEW r \in req.blank .. req.blank + ToMake - 1 PROVE InkedRow(r)'
      <3>1. PICK j \in 0 .. ToMake - 1 : r = req.blank + j
        <4>1. r - req.blank \in 0 .. ToMake - 1 /\ r = req.blank + (r - req.blank)
          BY <1>5
        <4> QED  BY <4>1
      <3>2. IsMoved(j)
        BY <1>1, <1>5, <1>6 DEF IsMoved
      <3>3. InkedRow(r)
        <4>1. InkedRow(req.blank + j)
          BY <1>3, <3>2 DEF MoveInv
        <4> QED  BY <3>1, <4>1
      <3> QED  BY <1>1, <1>5, <1>9, <3>3 DEF InkedRow
    <2> QED  BY <1>8, <1>9, <2>1 DEF Inked
  <1>12. KeptAfterCall'
    <2>1. PICK b \in Int : b = FirstAsked + TopCut + ToMake
      BY <1>5
    <2>2. /\ WindowRight /\ win.first = FirstRow(s) /\ win.last = LastRow(e)
      BY <1>3, <1>6 DEF WindowInv
    <2>3. ASSUME NEW k \in 0 .. c.scaledH - 1
          PROVE  /\ k >= b - 1 => win.first <= FirstRow(k)
                 /\ k >= b => win.last <= LastRow(k)
      <3>1. s \in 0 .. c.scaledH - 1 /\ e \in 0 .. c.scaledH - 1 /\ s <= b - 1 /\ e <= b
        BY <1>4, <1>5, <1>6, <2>1
      <3>2. s <= k => FirstRow(s) <= FirstRow(k)
        BY <1>2, <1>4, <3>1, RowsGrow
      <3>3. e <= k => LastRow(e) <= LastRow(k)
        BY <1>2, <1>4, <3>1, RowsGrow
      <3> QED  BY <2>1, <2>2, <3>1, <3>2, <3>3
    <2>4. WindowBefore(b)
      BY <1>3, <2>2, <2>3 DEF WindowBefore
    <2>5. WindowBefore(b)'
      BY <1>1, <2>4, SameWindow
    <2> QED  BY <1>9, <2>1, <2>5 DEF KeptAfterCall
  <1>13. CallInv'
    <2>1. pc' = "rows" /\ c' = c
      BY <1>1
    <2>a. req'.scaled = 0
      BY <1>8
    <2> QED  BY <1>4, <1>10, <1>11, <1>12, <2>1, <2>a DEF CallInv
  <1>14. /\ req'.blank = req.blank /\ req'.rc = "ok" /\ req' = [f \in ReqFields |-> req'[f]]
         /\ \A f \in ReqFields \ {"rc"} : req'[f] \in Int
    BY <1>5, <1>8 DEF ReqFields
  <1> QED  BY <1>1, <1>13, <1>14, CallStep DEF InCall

(* The rows asked for are decoded.                                       *)
LEMMA DecodeKeeps ==
  ASSUME StripesInv, Decode
  PROVE  StripesInv'
  <1>1. /\ pc = "decode"
        /\ page' = page /\ c' = c /\ dec' = dec /\ cache' = cache /\ win' = win
        /\ out' = out /\ sent' = sent
        /\ req.count = 0 \/ req.y >= IF Sideways(c.rot) THEN c.sampW ELSE c.sampH
    BY DEF Decode
  <1>2. /\ page \in Pages /\ c = OutputProperties(page) /\ CallInv /\ req.rc = "ok" /\ Shapes
        /\ sent \in Nat /\ sent < PageHeight /\ req.blank = WhiteRows
    BY <1>1, CallFacts DEF InCall
  <1>3. PlainInv \/ FillsWindow
    BY <1>1, <1>2 DEF CallInv
  <1>4. c.srcH = (IF Sideways(c.rot) THEN c.sampW ELSE c.sampH) /\ c.srcH \in Nat
    BY <1>2, PropertiesAre, SizesAre
  <1>5. PlainInv => /\ ToMake \in Nat /\ ToMake >= 1 /\ FirstAsked \in Nat /\ c.rowOff \in Nat
                    /\ FirstAsked + ToMake <= AreaHeight /\ c.rowOff + AreaHeight <= c.srcH
                    /\ AreaHeight \in Nat
                    /\ req.got \in Nat /\ req.got <= ToMake /\ req.count = ToMake - req.got
                    /\ req.y = FirstAsked + c.rowOff + req.got /\ c.scale = "none"
    <2> SUFFICES ASSUME PlainInv
                 PROVE  /\ ToMake \in Nat /\ ToMake >= 1 /\ FirstAsked \in Nat /\ c.rowOff \in Nat
                    /\ FirstAsked + ToMake <= AreaHeight /\ c.rowOff + AreaHeight <= c.srcH
                    /\ AreaHeight \in Nat
                    /\ req.got \in Nat /\ req.got <= ToMake /\ req.count = ToMake - req.got
                    /\ req.y = FirstAsked + c.rowOff + req.got /\ c.scale = "none"
      OBVIOUS
    <2>1. c.scale = "none" /\ req.blank < StripeTotal
      BY DEF PlainInv, Asked
    <2>2. /\ ToMake \in 1 .. StripeTotal - req.blank /\ FirstAsked \in 0 .. AreaHeight - 1
          /\ FirstAsked + ToMake <= AreaHeight
      BY <1>2, <2>1, CallIs
    <2>3. c.rowOff \in Nat /\ AreaHeight \in Nat /\ c.rowOff + AreaHeight <= c.srcH
      BY <1>2, <2>1, LayoutIs
    <2>4. req.got \in 0 .. ToMake
      BY DEF PlainInv
    <2> QED  BY <2>1, <2>2, <2>3, <2>4 DEF PlainInv
  <1>6. FillsWindow => /\ c.scale # "none" /\ ToScale /\ WindowInv
                       /\ win.first \in Nat /\ win.last \in 0 .. c.srcH - 1
                       /\ Len(win.rows) \in Nat /\ req.y = win.first + Len(win.rows)
                       /\ req.count = win.last - win.first + 1 - Len(win.rows)
                       /\ req.count >= 0 /\ req.got \in Nat /\ (req.count = 0 => req.got > 0)
    <2> SUFFICES ASSUME FillsWindow
                 PROVE  /\ c.scale # "none" /\ ToScale /\ WindowInv
                       /\ win.first \in Nat /\ win.last \in 0 .. c.srcH - 1
                       /\ Len(win.rows) \in Nat
      BY DEF FillsWindow
    <2>1. ToScale /\ c.scale # "none" /\ WindowInv
      BY DEF FillsWindow, ToScale
    <2>2. Needed.last \in 0 .. c.srcH - 1
      BY <1>2, <2>1, NeededIs
    <2> QED  BY <2>1, <2>2 DEF WindowInv, WindowRight
  <1>7. req.count = 0
    <2>1. req.count = 0 \/ req.y >= c.srcH
      BY <1>1, <1>4
    <2>2. CASE PlainInv
      BY <1>4, <1>5, <2>1, <2>2
    <2>3. CASE FillsWindow
      <3>1. /\ win.first \in Nat /\ win.last \in 0 .. c.srcH - 1 /\ Len(win.rows) \in Nat
            /\ req.y = win.first + Len(win.rows) /\ req.count >= 0
            /\ req.count = win.last - win.first + 1 - Len(win.rows)
        BY <1>6, <2>3
      <3> QED  BY <1>4, <2>1, <3>1
    <2> QED  BY <1>3, <2>2, <2>3
  <1>8. req.got > 0 /\ req.got # 0
    BY <1>3, <1>5, <1>6, <1>7
  <1>9. pc' = (IF c.scale = "none" THEN "sides" ELSE "emit") /\ req' = [req EXCEPT !.rc = @]
    BY <1>7, <1>8 DEF Decode
  <1>10. req' = req
    BY <1>2, <1>9 DEF Shapes, ReqFields
  <1>11. CallInv'
    <2>1. CASE c.scale = "none"
      <3>1. PlainInv
        BY <1>3, <1>6, <2>1
      <3>2. req.got = ToMake
        BY <1>5, <1>7, <3>1
      <3>3. Asked /\ Accounts(ToMake) /\ Inked(ToMake)
        BY <3>1, <3>2 DEF PlainInv
      <3>4. Asked' /\ Accounts(ToMake)'
        BY <1>1, <1>10, <3>3, SameCall DEF Asked, Accounts
      <3>5. Inked(ToMake)'
        <4>1. \A r \in Int : InkedRow(r)' <=> InkedRow(r)
          <5> TAKE r \in Int
          <5>1. \A x \in Int : Ink(r, x)' = Ink(r, x)
            BY <1>1, <1>10, SameCall
          <5>2. AreaWidth' = AreaWidth /\ PadLeft' = PadLeft /\ PageWidth' = PageWidth
            BY <1>1, SamePage
          <5> QED  BY <1>1, <5>1, <5>2 DEF InkedRow
        <4>2. ToMake' = ToMake /\ req'.blank = req.blank
          BY <1>1, <1>10, SameCall
        <4> QED  BY <3>3, <4>1, <4>2 DEF Inked
      <3>6. KeptAfterCall'
        <4>1. PICK b \in Int : b = FirstAsked' + TopCut' + ToMake'
          <5>1. FirstAsked' = FirstAsked /\ TopCut' = TopCut /\ ToMake' = ToMake
            BY <1>1, <1>10, SameCall, SamePage
          <5>2. FirstAsked \in Int /\ TopCut \in Int /\ ToMake \in Int
            BY <1>2, <1>5, <3>1, CallIs
          <5> QED  BY <5>1, <5>2
        <4>2. WindowBefore(b)'
          BY <1>1, <2>1 DEF WindowBefore
        <4> QED  BY <4>1, <4>2 DEF KeptAfterCall
      <3> QED  BY <1>9, <2>1, <3>4, <3>5, <3>6 DEF CallInv
    <2>2. CASE c.scale # "none"
      <3>1. FillsWindow
        BY <1>3, <1>5, <2>2
      <3>2. ToScale /\ WindowInv /\ Len(win.rows) = win.last - win.first + 1
        BY <1>6, <1>4, <1>7, <3>1
      <3>3. ToScale' /\ WindowInv'
        <4>1. ToScale'
          <5>1. Asked' /\ Accounts(0)'
            BY <1>1, <1>10, <3>2, SameCall DEF Asked, Accounts, ToScale
          <5>2. FirstAsked' = FirstAsked /\ TopCut' = TopCut /\ ToMake' = ToMake
            BY <1>1, <1>10, SameCall, SamePage
          <5> QED  BY <1>1, <1>10, <3>2, <5>1, <5>2 DEF ToScale
        <4>2. WindowRight'
          BY <1>1, <3>2, SameWindow DEF WindowInv
        <4>3. Needed' = Needed
          BY <1>1, <1>10, SameNeeded
        <4> QED  BY <1>1, <3>2, <4>1, <4>2, <4>3 DEF WindowInv
      <3> QED  BY <1>1, <1>9, <2>2, <3>2, <3>3 DEF CallInv, FullWindow
    <2> QED  BY <2>1, <2>2
  <1>12. /\ req'.blank = req.blank /\ req'.rc = "ok" /\ req' = [f \in ReqFields |-> req'[f]]
         /\ \A f \in ReqFields \ {"rc"} : req'[f] \in Int
    BY <1>2, <1>10 DEF Shapes
  <1>13. pc' \in InCall /\ pc' # "fill"
    BY <1>9 DEF InCall
  <1> QED  BY <1>1, <1>11, <1>12, <1>13, CallStep DEF InCall

(* The plugin sends the stripe.                                          *)
LEMMA ReturnKeeps ==
  ASSUME StripesInv, Return
  PROVE  StripesInv'
  <1>1. /\ pc = "return"
        /\ page' = page /\ c' = c /\ dec' = dec /\ cache' = cache /\ win' = win
        /\ out' = out /\ req' = req
        /\ IF req.rc = "ok" /\ req.height > 0
           THEN /\ sent' = sent + req.height
                /\ pc' = IF sent + req.height >= PageHeight THEN "done" ELSE "page"
           ELSE pc' = "done" /\ sent' = sent
    BY DEF Return
  <1>2. /\ page \in Pages /\ c = OutputProperties(page) /\ HasHeader(page) /\ Known /\ Shapes
        /\ GoesOn \/ Stopped
    BY <1>1 DEF StripesInv
  <1>3. DecoderShape(dec)'
    BY <1>1, <1>2 DEF Shapes, DecoderShape
  <1>4. CASE req.rc = "ok"
    <2>1. GoesOn
      BY <1>2, <1>4 DEF Stopped
    <2>2. /\ req.height \in 1 .. StripeTotal /\ KeptAfterReturn
          /\ DecoderInv(dec) /\ CacheInv
      BY <1>1, <2>1 DEF GoesOn, CallInv, InCall
    <2>3. /\ sent \in Nat /\ PageHeight \in Nat /\ StripeTotal \in Int
          /\ sent + StripeTotal <= PageHeight
      <3>1. sent \in Nat /\ sent < PageHeight /\ req.blank = WhiteRows
        BY <1>1, <1>2, <2>1 DEF GoesOn, Begun, InCall, Shapes
      <3> QED  BY <1>2, <3>1, CallIs
    <2>4. /\ sent' = sent + req.height /\ sent' <= PageHeight /\ sent' \in Nat
          /\ pc' = (IF sent' >= PageHeight THEN "done" ELSE "page")
      BY <1>1, <1>4, <2>2, <2>3
    <2>5. PageHeight' = PageHeight /\ PadTop' = PadTop /\ TopCut' = TopCut
      BY <1>1, SamePage
    <2>6. Shapes'
      BY <1>1, <1>2, <1>3, <2>3, <2>4, <2>5 DEF Shapes, ReqFields, Colours, InCall, DecoderShape
    <2>7. DecoderInv(dec)' /\ CacheInv'
      <3>1. DecoderInv(dec)'
        BY <1>1, <2>2, SamePage DEF DecoderInv
      <3>2. CacheInv'
        BY <1>1, <2>2, <2>4 DEF CacheInv
      <3> QED  BY <3>1, <3>2
    <2>8. KeptForNext'
      <3>1. PICK b \in Int : b = sent + req.height - PadTop + TopCut /\ WindowBefore(b)
        BY <2>2 DEF KeptAfterReturn
      <3>2. WindowBefore(b)'
        BY <1>1, <3>1, SameWindow
      <3>3. PadTop \in Int /\ TopCut \in Int /\ req.height \in Int
        BY <1>2, <2>2, LayoutIs, SizesAre DEF TopCut, Greatest
      <3>4. sent' - PadTop + TopCut = b
        BY <2>3, <2>4, <3>1, <3>3
      <3> QED  BY <2>5, <3>1, <3>2, <3>4 DEF KeptForNext
    <2>9. GoesOn'
      <3>1. pc' \notin InCall
        BY <2>4 DEF InCall
      <3> QED  BY <1>1, <1>4, <2>3, <2>4, <2>5, <2>7, <2>8, <3>1 DEF GoesOn
    <2> QED  BY <1>1, <1>2, <2>6, <2>9, GoOn
  <1>5. CASE req.rc # "ok"
    <2>1. Stopped
      BY <1>2, <1>5 DEF GoesOn
    <2>2. pc' = "done" /\ sent' = sent
      BY <1>1, <1>5
    <2>3. Stopped'
      BY <1>1, <2>1, <2>2, SamePage DEF Stopped
    <2>4. Shapes'
      <3>1. PageHeight' = PageHeight
        BY <1>1, SamePage
      <3> QED  BY <1>1, <1>2, <1>3, <2>2, <3>1 DEF Shapes, ReqFields, Colours, InCall, DecoderShape
    <2> QED  BY <1>1, <1>2, <2>3, <2>4, GoOn
  <1> QED  BY <1>4, <1>5

(* A sequence has the length it is defined for.                            *)
LEMMA LengthIs ==
  ASSUME NEW k \in Nat, NEW F, F = [i \in 1 .. k |-> F[i]]
  PROVE  Len(F) = k
  <1> DEFINE S == {F[i] : i \in 1 .. k}
  <1>1. F \in [1 .. k -> S]
    OBVIOUS
  <1> HIDE DEF S
  <1>2. F \in Seq(S)
    BY <1>1
  <1> QED  BY <1>1, <1>2

(* The rows kept for the scaler are those it needs again.                *)
LEMMA WindowKeeps ==
  ASSUME StripesInv, Window
  PROVE  StripesInv'
  <1> DEFINE n    == Needed
             kept == IF n.first <= win.last THEN win.last - n.first + 1 ELSE 0
             more == n.last - (n.first + kept) + 1
             rows == [i \in 1 .. kept |-> win.rows[n.first - win.first + i]]
  <1>1. /\ pc = "rows" /\ req.scaled > 0
        /\ page' = page /\ c' = c /\ dec' = dec /\ cache' = cache
        /\ out' = out /\ sent' = sent
    BY DEF Window
  <1>a. /\ win' = [first |-> n.first, last |-> n.last, rows |-> rows]
        /\ req' = [req EXCEPT !.count = more, !.y = n.first + kept + c.rowOff, !.got = 0,
                              !.rc = IF more > 0 \/ kept > 0 THEN @ ELSE "nothing"]
        /\ pc' = IF more > 0 THEN "decode" ELSE IF kept > 0 THEN "emit" ELSE "return"
    BY DEF Window
  <1>2. /\ page \in Pages /\ c = OutputProperties(page) /\ CallInv /\ req.rc = "ok"
        /\ sent \in Nat /\ sent < PageHeight /\ req.blank = WhiteRows
    BY <1>1, CallFacts DEF InCall
  <1>3. ToScale /\ KeptForCall
    <2>1. req.scaled # 0
      BY <1>1
    <2> QED  BY <1>1, <1>2, <2>1 DEF CallInv
  <1>4. c.scale # "none" /\ req.at = FirstAsked + TopCut
    BY <1>3 DEF ToScale
  <1>5. c.scaledH \in Nat /\ c.srcH \in Nat /\ c.rowOff = 0
    BY <1>2, <1>4, SizesAre, LayoutIs
  <1>6. PICK s \in 0 .. req.at, e \in req.at + ToMake - 1 .. c.scaledH - 1 :
          /\ req.at \in 0 .. c.scaledH - 1
          /\ n.first = FirstRow(s) /\ n.last = LastRow(e)
          /\ n.first \in Nat /\ n.last \in 0 .. c.srcH - 1 /\ n.first <= n.last
          /\ req.at - s \in {0, 1}
    BY <1>2, <1>3, NeededIs
  <1>7. ToMake \in Nat /\ ToMake >= 1
    <2>1. req.blank < StripeTotal
      BY <1>3 DEF ToScale, Asked
    <2> QED  BY <1>2, <2>1, CallIs
  <1> HIDE DEF n
  <1>8. \/ win.first = -1 /\ win.last = -1
        \/ /\ WindowRight /\ Len(win.rows) = win.last - win.first + 1
           /\ win.first <= n.first /\ win.last <= n.last
    <2>1. PICK b \in Int : b = req.at /\ WindowBefore(b)
      BY <1>3, <1>4 DEF KeptForCall
    <2>2. s \in 0 .. c.scaledH - 1 /\ e \in 0 .. c.scaledH - 1 /\ s >= b - 1 /\ e >= b
      BY <1>5, <1>6, <1>7, <2>1
    <2> QED  BY <1>4, <1>6, <2>1, <2>2 DEF WindowBefore
  <1>9. /\ kept \in Nat /\ more \in Nat /\ (more > 0 \/ kept > 0)
        /\ n.first + kept \in Nat /\ more = n.last - n.first + 1 - kept
    <2>1. CASE win.first = -1 /\ win.last = -1
      BY <1>6, <2>1
    <2>2. CASE ~ (win.first = -1 /\ win.last = -1)
      <3>1. win.last \in Nat /\ win.first \in Nat /\ win.last <= n.last
        BY <1>8, <2>2 DEF WindowRight
      <3> QED  BY <1>6, <3>1
    <2> QED  BY <2>1, <2>2
  <1>10. ASSUME NEW i \in 1 .. kept, NEW y \in Nat, y = n.first + i - 1
         PROVE  rows[i] = [x \in 0 .. c.outW - 1 |-> SeenPixel(y, x)]
    <2>1. /\ WindowRight /\ Len(win.rows) = win.last - win.first + 1
          /\ win.first <= n.first /\ win.last <= n.last /\ kept = win.last - n.first + 1
          /\ win.first \in Nat /\ win.last \in Nat
      <3>1. n.first <= win.last
        OBVIOUS
      <3>2. ~ (win.first = -1 /\ win.last = -1)
        BY <1>6, <3>1
      <3> QED  BY <1>8, <3>1, <3>2 DEF WindowRight
    <2>2. i \in Int /\ 1 <= i /\ i <= kept
      BY <1>9
    <2>3. PICK j \in Int : j = n.first - win.first + i
      BY <1>6, <2>1
    <2>4. rows[i] = win.rows[j]
      BY <2>3
    <2> HIDE DEF kept, rows
    <2>5. j \in 1 .. Len(win.rows) /\ win.first + j - 1 = y
      <3>1. n.first \in Nat
        BY <1>6
      <3>2. /\ win.first \in Nat /\ win.last \in Nat /\ win.first <= n.first
            /\ i <= win.last - n.first + 1
        BY <2>1, <2>2
      <3>3. j >= 1 /\ j <= win.last - win.first + 1
        BY <2>2, <2>3, <3>1, <3>2
      <3>4. win.first + j - 1 = y
        BY <1>10, <2>2, <2>3, <3>1, <3>2
      <3> QED  BY <2>1, <3>3, <3>4
    <2>6. win.rows[j] = [x \in 0 .. c.outW - 1 |-> SeenPixel(y, x)]
      BY <2>1, <2>5 DEF WindowRight
    <2> QED  BY <2>4, <2>6
  <1>11. Len(rows) = kept /\ rows = [i \in 1 .. Len(rows) |-> rows[i]]
    <2>1. rows = [i \in 1 .. kept |-> rows[i]]
      OBVIOUS
    <2> HIDE DEF rows, kept
    <2> QED  BY <1>9, <2>1, LengthIs
  <1> HIDE DEF kept, more, rows
  <1>12. /\ req' = [start |-> req.start, rows |-> req.rows, height |-> req.height,
                    blank |-> req.blank, at |-> req.at, count |-> more,
                    y |-> n.first + kept, got |-> 0, scaled |-> req.scaled,
                    moved |-> req.moved, rc |-> "ok"]
         /\ {req.start, req.rows, req.height, req.blank, req.at, req.count, req.y, req.got,
             req.scaled, req.moved} \subseteq Int
    <2>1. /\ req = [start |-> req.start, rows |-> req.rows, height |-> req.height,
                    blank |-> req.blank, at |-> req.at, count |-> req.count, y |-> req.y,
                    got |-> req.got, scaled |-> req.scaled, moved |-> req.moved, rc |-> req.rc]
          /\ {req.start, req.rows, req.height, req.blank, req.at, req.count, req.y, req.got,
              req.scaled, req.moved} \subseteq Int
      BY <1>1, ReqShape DEF InCall
    <2>2. req' = [req EXCEPT !.count = more, !.y = n.first + kept, !.got = 0, !.rc = @]
      <3>1. n.first + kept + c.rowOff = n.first + kept
        BY <1>5, <1>9
      <3> QED  BY <1>a, <1>9, <3>1
    <2> QED  BY <1>2, <2>1, <2>2
  <1>13. /\ StripeTotal' = StripeTotal /\ FirstAsked' = FirstAsked /\ ToMake' = ToMake
         /\ TopCut' = TopCut
    BY <1>1, <1>12, SameCall, SamePage
  <1>14. ToScale'
    <2>1. Asked'
      BY <1>3, <1>9, <1>12, <1>13 DEF Asked, ToScale
    <2>2. Accounts(0)'
      <3>1. Accounts(0) /\ sent' = sent
        BY <1>1, <1>3 DEF ToScale
      <3>2. /\ req'.height = req.height /\ req'.blank = req.blank /\ req'.start = req.start
            /\ req'.rows = req.rows
        BY <1>12
      <3> QED  BY <1>13, <3>1, <3>2 DEF Accounts
    <2>3. req'.at = req.at /\ req'.scaled = req.scaled
      BY <1>12
    <2> QED  BY <1>1, <1>3, <1>13, <2>1, <2>2, <2>3 DEF ToScale
  <1>15. WindowInv'
    <2>1. win'.first = n.first /\ win'.last = n.last /\ win'.rows = rows
      BY <1>a
    <2>2. Needed' = n
      <3>1. req'.at = req.at /\ req'.scaled = req.scaled
        BY <1>12
      <3> QED  BY <1>1, <3>1, SameNeeded DEF n
    <2>3. WindowRight'
      <3>1. ASSUME NEW i \in 1 .. Len(rows), NEW y \in Nat, y = n.first + i - 1
            PROVE  rows[i] = [x \in 0 .. c'.outW - 1 |-> SeenPixel(y, x)']
        <4>1. rows[i] = [x \in 0 .. c.outW - 1 |-> SeenPixel(y, x)]
          BY <1>10, <1>11, <3>1
        <4>2. c' = c /\ \A x \in 0 .. c.outW - 1 : SeenPixel(y, x)' = SeenPixel(y, x)
          BY <1>1, SamePage
        <4> QED  BY <4>1, <4>2
      <3>2. n.last \in Nat
        BY <1>5, <1>6
      <3>3. n.first \in Nat /\ Len(rows) \in Nat
        BY <1>6, <1>9, <1>11
      <3>4. win'.rows = [i \in 1 .. Len(win'.rows) |-> win'.rows[i]]
        BY <1>11, <2>1
      <3>5. ASSUME NEW i \in 1 .. Len(win'.rows), NEW y \in Nat, y = win'.first + i - 1
            PROVE  win'.rows[i] = [x \in 0 .. c'.outW - 1 |-> SeenPixel(y, x)']
        BY <2>1, <3>1, <3>5
      <3>6. win' = [first |-> win'.first, last |-> win'.last, rows |-> win'.rows]
        BY <1>a
      <3> HIDE DEF rows
      <3> QED  BY <2>1, <3>2, <3>3, <3>4, <3>5, <3>6 DEF WindowRight
    <2> QED  BY <2>1, <2>2, <2>3 DEF WindowInv
  <1>16. CallInv'
    <2>1. c' = c /\ win'.first = n.first /\ win'.last = n.last /\ Len(win'.rows) = kept
      BY <1>1, <1>a, <1>11
    <2>2. CASE more > 0
      <3>1. pc' = "decode"
        BY <1>a, <2>2
      <3>2. req'.count = more /\ req'.y = n.first + kept /\ req'.got = 0
        BY <1>12
      <3>3. FillsWindow'
        <4>1. /\ req'.count = win'.last - win'.first + 1 - Len(win'.rows) /\ req'.count >= 0
              /\ req'.y = win'.first + Len(win'.rows) /\ req'.got \in Nat /\ req'.count # 0
          BY <1>9, <2>1, <2>2, <3>2
        <4> QED  BY <1>14, <1>15, <4>1 DEF FillsWindow
      <3> QED  BY <3>1, <3>3 DEF CallInv
    <2>3. CASE ~ more > 0
      <3>1. pc' = "emit" /\ more = 0
        BY <1>a, <1>9, <2>3
      <3>2. FullWindow'
        <4>1. n.last - n.first + 1 = kept
          BY <1>5, <1>6, <1>9, <3>1
        <4> QED  BY <1>14, <1>15, <2>1, <4>1 DEF FullWindow
      <3> QED  BY <3>1, <3>2 DEF CallInv
    <2> QED  BY <2>2, <2>3
  <1>17. /\ req'.blank = req.blank /\ req'.rc = "ok" /\ req' = [f \in ReqFields |-> req'[f]]
         /\ \A f \in ReqFields \ {"rc"} : req'[f] \in Int
    BY <1>6, <1>9, <1>12 DEF ReqFields
  <1>18. pc' \in InCall /\ pc # "fill" /\ pc' # "fill" /\ pc \in InCall \ {"return"}
    <2>1. pc' \in {"decode", "emit", "return"}
      BY <1>a
    <2> QED  BY <1>1, <2>1 DEF InCall
  <1> QED  BY <1>1, <1>16, <1>17, <1>18, CallStep

(***************************************************************************)
(* The rows the scaler makes, and the way they go to the page.             *)
(***************************************************************************)

(* A place of a row is before every later row.                             *)
LEMMA BeforeRow ==
  ASSUME NEW r \in Int, NEW s \in Int, NEW w \in Nat, NEW x \in 0 .. w - 1, r < s
  PROVE  r * w + x < s * w /\ r * w + x \in Int /\ s * w \in Int
  <1> DEFINE a == r * w
             b == s * w
  <1>1. a + w <= b /\ a \in Int /\ b \in Int
    BY RowsApart
  <1> HIDE DEF a, b
  <1>2. a + x < b /\ a + x \in Int
    BY <1>1
  <1> QED  BY <1>1, <1>2 DEF a, b

(* In the order they move, a row does not come to lie where a row that has *)
(* not moved is still.                                                     *)
LEMMA NotOverwritten ==
  ASSUME NEW base \in Int, NEW pw \in Nat, NEW sw \in Nat, NEW j \in Nat, NEW m \in Nat,
         NEW off \in {0, 1}, NEW x \in 0 .. sw - 1, NEW left \in Nat, NEW aw \in Nat,
         left + aw <= pw,
         (pw < sw /\ m < j) \/ (sw <= pw /\ j < m /\ off = 0)
  PROVE  LET to == base + m * pw + left
             p  == base + ((j + off) * sw + x)
         IN ~ (p >= to /\ p < to + aw)
  <1> DEFINE mp == m * pw
             jp == j * pw
             js == j * sw
             ms == m * sw
             os == (j + off) * sw
  <1>1. mp \in Int /\ jp \in Int /\ js \in Int /\ ms \in Int /\ os \in Int
    OBVIOUS
  <1>2. js <= os /\ (off = 0 => os = js)
    BY Grows
  <1>3. CASE pw < sw /\ m < j
    <2>1. mp + pw <= jp
      BY <1>3, RowsApart
    <2>2. jp <= js
      <3>1. pw * j <= sw * j /\ pw * j = jp /\ sw * j = js
        BY <1>3, Grows
      <3> QED  BY <3>1
    <2> HIDE DEF mp, jp, js, ms, os
    <2>3. base + (os + x) >= base + mp + left + aw
      BY <1>1, <1>2, <2>1, <2>2
    <2> QED  BY <1>1, <2>3 DEF mp, os
  <1>4. CASE sw <= pw /\ j < m /\ off = 0
    <2>1. js + sw <= ms
      BY <1>4, RowsApart
    <2>2. ms <= mp
      <3>1. sw * m <= pw * m /\ sw * m = ms /\ pw * m = mp
        BY <1>4, Grows
      <3> QED  BY <3>1
    <2> HIDE DEF mp, jp, js, ms, os
    <2>3. base + (os + x) < base + mp + left
      BY <1>1, <1>2, <1>4, <2>1, <2>2
    <2> QED  BY <1>1, <2>3 DEF mp, os
  <1> QED  BY <1>3, <1>4

(* Rows on the page do not overlap.                                        *)
LEMMA OtherRow ==
  ASSUME NEW r \in Int, NEW s \in Int, r # s, NEW pw \in Nat, NEW left \in Nat, NEW aw \in Nat,
         left + aw <= pw, NEW x \in 0 .. aw - 1
  PROVE  LET to == s * pw + left
             p  == r * pw + (left + x)
         IN ~ (p >= to /\ p < to + aw)
  <1> DEFINE a == r * pw
             b == s * pw
  <1>1. a \in Int /\ b \in Int
    OBVIOUS
  <1>2. CASE r < s
    <2>1. a + pw <= b
      BY <1>2, RowsApart
    <2> HIDE DEF a, b
    <2>2. a + (left + x) < b + left
      BY <1>1, <2>1
    <2> QED  BY <1>1, <2>2 DEF a, b
  <1>3. CASE s < r
    <2>1. b + pw <= a
      BY <1>3, RowsApart
    <2> HIDE DEF a, b
    <2>2. a + (left + x) >= b + left + aw
      BY <1>1, <2>1
    <2> QED  BY <1>1, <2>2 DEF a, b
  <1> QED  BY <1>2, <1>3

(* A row of the area, and the rows of the scaler, before and after a step. *)
LEMMA SameInk ==
  ASSUME page' = page, c' = c, sent' = sent, req'.blank = req.blank, NEW r \in Int
  PROVE  InkedRow(r)' <=> \A x \in 0 .. AreaWidth - 1 :
                            out'[r * PageWidth + (PadLeft + x)] = Ink(r, x)
  <1>1. \A x \in Int : Ink(r, x)' = Ink(r, x)
    BY SameCall
  <1>2. AreaWidth' = AreaWidth /\ PadLeft' = PadLeft /\ PageWidth' = PageWidth
    BY SamePage
  <1> QED  BY <1>1, <1>2 DEF InkedRow

(* The rows of the scaler stay as they are.                              *)
LEMMA SameScaled ==
  ASSUME page' = page, c' = c, req'.blank = req.blank, req'.at = req.at,
         req'.scaled = req.scaled, NEW j \in Int
  PROVE  ScaledRow(j)' <=> \A x \in 0 .. c.scaledW - 1 :
           out'[req.blank * PageWidth + ((j + Needed.offset) * c.scaledW + x)]
             = ScaledPixel(req.at + j, x)
  <1>1. PageWidth' = PageWidth /\ Needed' = Needed
    BY SamePage, SameNeeded
  <1> QED  BY <1>1 DEF ScaledRow, ScaledPixel

(* What is known when the scaler has the rows it works on.                 *)
LEMMA ScalerFacts ==
  ASSUME StripesInv, pc \in {"emit", "move"}
  PROVE  /\ ToScale /\ FullWindow /\ Asked /\ Accounts(0) /\ c.scale # "none"
         /\ req.at = FirstAsked + TopCut /\ req.scaled = ToMake /\ StripeRows = ToMake
         /\ req.height = req.blank /\ req.at \in Nat
         /\ req.blank \in Nat /\ FirstAsked \in Nat /\ TopCut \in Nat /\ LeftCut \in Nat
         /\ ToMake \in Nat /\ ToMake >= 1 /\ req.blank + ToMake <= StripHeight
         /\ StripHeight <= c.outRows /\ c.outRows \in Nat
         /\ Needed.offset \in {0, 1} /\ (Needed.offset = 1 => ToMake = 1)
         /\ Needed.start + Needed.offset = req.at /\ Needed.start \in Nat
         /\ ToMake + Needed.offset <= Needed.rows /\ Needed.rows \in Nat
         /\ req.blank + ToMake + Needed.offset <= c.outRows
         /\ AreaWidth \in Nat \ {0} /\ PadLeft \in Nat /\ PadRight \in Nat
         /\ PadTop \in Nat /\ StripHeight \in Nat
         /\ PageWidth = PadLeft + AreaWidth + PadRight
         /\ AreaWidth = Least(c.scaledW, c.printW) /\ LeftCut + AreaWidth <= c.scaledW
         /\ c.scaledW \in Nat \ {0} /\ c.printW \in Nat \ {0} /\ PageWidth \in Nat \ {0}
  <1>1. /\ page \in Pages /\ c = OutputProperties(page) /\ CallInv /\ req.rc = "ok"
        /\ sent \in Nat /\ sent < PageHeight /\ req.blank = WhiteRows
    BY CallFacts DEF InCall
  <1>2. FullWindow /\ ToScale
    BY <1>1 DEF CallInv, FullWindow
  <1>3. /\ Asked /\ Accounts(0) /\ c.scale # "none" /\ req.blank < StripeTotal
        /\ req.at = FirstAsked + TopCut /\ req.scaled = ToMake
    BY <1>2 DEF ToScale, Asked
  <1>4. /\ StripeTotal \in 1 .. StripHeight /\ StripHeight \in Nat
        /\ req.blank \in 0 .. StripeTotal /\ PageWidth \in Nat \ {0}
        /\ TopCut \in Nat /\ LeftCut \in Nat /\ LeftCut + AreaWidth <= c.scaledW
        /\ FirstAsked \in 0 .. AreaHeight - 1
        /\ ToMake \in 1 .. StripeTotal - req.blank
    BY <1>1, <1>3, CallIs
  <1>5. PICK s \in 0 .. req.at, e \in req.at + ToMake - 1 .. c.scaledH - 1 :
           /\ req.at \in 0 .. c.scaledH - 1 /\ StripeRows = ToMake /\ Needed.start = s
           /\ Needed.offset = req.at - s /\ Needed.offset \in {0, 1}
           /\ Needed.offset = 1 => ToMake = 1
           /\ ToMake + Needed.offset <= Needed.rows /\ Needed.rows \in Nat
           /\ req.blank + ToMake + Needed.offset <= c.outRows
    BY <1>1, <1>2, NeededIs
  <1>6. /\ AreaWidth \in Nat \ {0} /\ AreaHeight \in Nat /\ PadLeft \in Nat /\ PadRight \in Nat
        /\ PadTop \in Nat
        /\ PageWidth = PadLeft + AreaWidth + PadRight /\ AreaWidth = Least(c.scaledW, c.printW)
    BY <1>1, LayoutIs
  <1>7. /\ c.scaledW \in Nat \ {0} /\ c.printW \in Nat \ {0}
        /\ c.outRows \in Nat /\ c.outRows >= StripHeight
    BY <1>1, SizesAre, RoomIs
  <1>8. req.height = req.blank
    BY <1>3, <1>4 DEF Accounts
  <1>9. /\ req.at \in Nat /\ ToMake \in Nat /\ ToMake >= 1 /\ req.blank \in Nat
        /\ FirstAsked \in Nat /\ req.blank + ToMake <= StripHeight
    BY <1>3, <1>4, <1>6
  <1>10. Needed.start \in Nat /\ Needed.start + Needed.offset = req.at
    BY <1>5, <1>9
  <1> QED  BY <1>2, <1>3, <1>4, <1>5, <1>6, <1>7, <1>8, <1>9, <1>10

(* What the scaler makes does not disturb the white rows above.            *)
LEMMA WhiteStays ==
  ASSUME NEW b \in Nat, NEW pw \in Nat, NEW base \in Int, base = b * pw, NEW f, NEW g,
         \A i \in DOMAIN f : i < base => g[i] = f[i],
         \A r \in 0 .. b - 1, x \in 0 .. pw - 1 : r * pw + x \in DOMAIN f,
         \A r \in 0 .. b - 1, x \in 0 .. pw - 1 : f[r * pw + x] = Blank
  PROVE  \A r \in 0 .. b - 1, x \in 0 .. pw - 1 : g[r * pw + x] = Blank
  <1> TAKE r \in 0 .. b - 1, x \in 0 .. pw - 1
  <1>1. r * pw + x < base
    BY BeforeRow
  <1> QED  BY <1>1

(* The white rows are in the buffer.                                     *)
LEMMA WhiteIsInBuffer ==
  ASSUME page \in Pages, c = OutputProperties(page), req.blank \in Nat, req.blank <= c.outRows,
         DOMAIN out = 0 .. BufferSize - 1
  PROVE  \A r \in 0 .. req.blank - 1, x \in 0 .. PageWidth - 1 : r * PageWidth + x \in DOMAIN out
  <1> TAKE r \in 0 .. req.blank - 1, x \in 0 .. PageWidth - 1
  <1>1. c.outRows \in Nat /\ PageWidth \in Nat
    <2>1. c.outRows \in Nat
      BY RoomIs
    <2>2. /\ AreaWidth \in Nat /\ PadLeft \in Nat /\ PadRight \in Nat
          /\ PageWidth = PadLeft + AreaWidth + PadRight
      BY LayoutIs
    <2>3. PageWidth \in Nat
      BY <2>2
    <2> QED  BY <2>1, <2>3
  <1>2. r \in Nat /\ x \in Nat /\ r < c.outRows /\ x < PageWidth
    BY <1>1
  <1> QED  BY <1>2, RowInBuffer

(* The scaler writes its rows behind the white ones, and into none of    *)
(* them.                                                                 *)
LEMMA EmitKeeps ==
  ASSUME StripesInv, Emit
  PROVE  StripesInv'
  <1>1. /\ pc = "emit" /\ pc' = "move"
        /\ page' = page /\ c' = c /\ dec' = dec /\ cache' = cache /\ win' = win /\ sent' = sent
        /\ req' = [req EXCEPT !.moved = IF Moves THEN 0 ELSE StripeRows]
    BY DEF Emit
  <1>2. /\ page \in Pages /\ c = OutputProperties(page) /\ req.rc = "ok" /\ Shapes /\ Begun
    BY <1>1, CallFacts DEF InCall
  <1>3. /\ ToScale /\ FullWindow /\ req.at \in Nat /\ req.blank \in Nat /\ ToMake \in Nat
        /\ StripeRows = ToMake /\ req.height = req.blank
        /\ req.blank + ToMake + Needed.offset <= c.outRows /\ c.outRows \in Nat
        /\ Needed.offset \in {0, 1} /\ Needed.start + Needed.offset = req.at
        /\ Needed.start \in Nat
        /\ ToMake + Needed.offset <= Needed.rows /\ Needed.rows \in Nat
        /\ c.scaledW \in Nat \ {0} /\ PageWidth \in Nat
    BY <1>1, ScalerFacts
  <1>4. PICK mv \in Nat : mv = (IF Moves THEN 0 ELSE ToMake)
    BY <1>3
  <1>5. /\ req' = [start |-> req.start, rows |-> req.rows, height |-> req.height,
                   blank |-> req.blank, at |-> req.at, count |-> req.count, y |-> req.y,
                   got |-> req.got, scaled |-> req.scaled, moved |-> mv, rc |-> "ok"]
        /\ {req.start, req.rows, req.height, req.blank, req.at, req.count, req.y, req.got,
            req.scaled, req.moved} \subseteq Int
    <2>1. /\ req = [start |-> req.start, rows |-> req.rows, height |-> req.height,
                    blank |-> req.blank, at |-> req.at, count |-> req.count, y |-> req.y,
                    got |-> req.got, scaled |-> req.scaled, moved |-> req.moved, rc |-> req.rc]
          /\ {req.start, req.rows, req.height, req.blank, req.at, req.count, req.y, req.got,
              req.scaled, req.moved} \subseteq Int
      BY <1>1, ReqShape DEF InCall
    <2>2. req' = [req EXCEPT !.moved = mv]
      BY <1>1, <1>3, <1>4
    <2> QED  BY <1>2, <2>1, <2>2
  <1>6. PICK base \in Int : base = req.blank * PageWidth
    BY <1>3
  <1>7. out' = [i \in DOMAIN out |->
                  IF i >= base /\ i < base + Needed.rows * c.scaledW
                  THEN ScaledPixel(Needed.start + (i - base) \div c.scaledW, (i - base) % c.scaledW)
                  ELSE out[i]]
    <2>1. out' = Scaled
      BY DEF Emit
    <2>2. base = req.height * PageWidth
      BY <1>3, <1>6
    <2> QED  BY <2>1, <2>2 DEF Scaled
  <1>8. DOMAIN out = 0 .. BufferSize - 1 /\ BufferSize \in Nat
    BY <1>2, CachedRows DEF Begun
  <1>9. ASSUME NEW j \in 0 .. ToMake - 1, NEW x \in 0 .. c.scaledW - 1
        PROVE  out'[base + ((j + Needed.offset) * c.scaledW + x)] = ScaledPixel(req.at + j, x)
    <2>1. PICK k \in Nat : k = j + Needed.offset
      BY <1>3
    <2>2. k \in 0 .. Needed.rows - 1 /\ req.blank + k < c.outRows
      BY <1>3, <2>1
    <2>3. PICK i : i = base + (k * c.scaledW + x)
      OBVIOUS
    <2>4. i \in DOMAIN out
      <3>1. x \in Nat /\ x < c.scaledW
        BY <1>3
      <3>2. req.blank * PageWidth + (k * c.scaledW + x) \in 0 .. BufferSize - 1
        BY <1>2, <1>3, <2>2, <3>1, InBuffer
      <3> QED  BY <1>6, <1>8, <2>3, <3>2
    <2>5. /\ i >= base /\ i < base + Needed.rows * c.scaledW
          /\ (i - base) \div c.scaledW = k /\ (i - base) % c.scaledW = x
      <3>1. /\ c.scaledW \in Nat \ {0} /\ base \in Int /\ Needed.rows \in Nat
            /\ k \in 0 .. Needed.rows - 1 /\ x \in 0 .. c.scaledW - 1
        BY <1>3, <1>6, <2>2
      <3>2. PICK w \in Nat \ {0}, n \in Nat : w = c.scaledW /\ n = Needed.rows
        BY <3>1
      <3>3. k \in 0 .. n - 1 /\ x \in 0 .. w - 1 /\ i = base + (k * w + x)
        BY <2>3, <3>1, <3>2
      <3>4. k * w + w <= n * w /\ k * w \in Int /\ n * w \in Int
        BY <3>2, <3>3, RowsApart
      <3>5. 0 * w <= k * w
        BY <3>2, Grows
      <3>6. (k * w + x) \div w = k /\ (k * w + x) % w = x
        <4>1. k \in Int /\ w \in Nat \ {0} /\ x \in 0 .. w - 1
          BY <3>2, <3>3
        <4> QED  BY <4>1, PlaceIs, Zenon
      <3> DEFINE a == k * w
                 t == n * w
      <3>7. /\ a \in Int /\ t \in Int /\ a + w <= t /\ 0 <= a /\ i = base + (a + x)
            /\ (a + x) \div w = k /\ (a + x) % w = x
        BY <3>2, <3>3, <3>4, <3>5, <3>6
      <3> HIDE DEF a, t
      <3>8. i >= base /\ i < base + t /\ i - base = a + x
        BY <3>1, <3>2, <3>3, <3>7
      <3> QED  BY <3>2, <3>7, <3>8 DEF t
    <2>6. out'[i] = ScaledPixel(Needed.start + k, x)
      BY <1>7, <2>4, <2>5
    <2>7. Needed.start + k = req.at + j
      BY <1>3, <2>1
    <2> QED  BY <2>1, <2>3, <2>6, <2>7
  <1>10. /\ StripeTotal' = StripeTotal /\ FirstAsked' = FirstAsked /\ ToMake' = ToMake
         /\ TopCut' = TopCut /\ PageWidth' = PageWidth
    BY <1>1, <1>5, SameCall, SamePage
  <1>11. ToScale'
    <2>1. Asked'
      BY <1>3, <1>4, <1>5, <1>10 DEF Asked, ToScale
    <2>2. Accounts(0)'
      <3>1. Accounts(0) /\ sent' = sent
        BY <1>1, <1>3 DEF ToScale
      <3>2. /\ req'.height = req.height /\ req'.blank = req.blank /\ req'.start = req.start
            /\ req'.rows = req.rows
        BY <1>5
      <3> QED  BY <1>10, <3>1, <3>2 DEF Accounts
    <2>3. req'.at = req.at /\ req'.scaled = req.scaled
      BY <1>5
    <2> QED  BY <1>1, <1>3, <1>10, <2>1, <2>2, <2>3 DEF ToScale
  <1>12. FullWindow'
    <2>1. WindowInv /\ Len(win.rows) = win.last - win.first + 1
      BY <1>3 DEF FullWindow
    <2>2. Needed' = Needed
      <3>1. req'.at = req.at /\ req'.scaled = req.scaled
        BY <1>5
      <3> QED  BY <1>1, <3>1, SameNeeded
    <2>3. WindowRight'
      BY <1>1, <2>1, SameWindow DEF WindowInv
    <2> QED  BY <1>1, <1>11, <2>1, <2>2, <2>3 DEF FullWindow, WindowInv
  <1>13. ASSUME NEW j \in 0 .. ToMake - 1 PROVE ScaledRow(j)'
    <2>1. req'.blank = req.blank /\ req'.at = req.at /\ req'.scaled = req.scaled
      BY <1>5
    <2>2. j \in Int
      BY <1>3
    <2>3. ScaledRow(j)' <=> \A x \in 0 .. c.scaledW - 1 :
            out'[req.blank * PageWidth + ((j + Needed.offset) * c.scaledW + x)] = ScaledPixel(req.at + j, x)
      BY <1>1, <2>1, <2>2, SameScaled
    <2>4. \A x \in 0 .. c.scaledW - 1 :
            out'[req.blank * PageWidth + ((j + Needed.offset) * c.scaledW + x)] = ScaledPixel(req.at + j, x)
      BY <1>6, <1>9, Zenon
    <2> QED  BY <2>3, <2>4
  <1>14. ASSUME ~ Moves, NEW j \in 0 .. ToMake - 1 PROVE InkedRow(req.blank + j)'
    <2>1. /\ AreaWidth \in Nat \ {0} /\ PadLeft \in Nat /\ PadRight \in Nat
          /\ PageWidth = PadLeft + AreaWidth + PadRight /\ c.printW \in Nat
          /\ AreaWidth = Least(c.scaledW, c.printW) /\ req.at = FirstAsked + TopCut
          /\ FirstAsked \in Nat /\ TopCut \in Nat /\ c.scale # "none" /\ PadTop \in Nat
      BY <1>1, ScalerFacts
    <2>2. /\ Needed.offset = 0 /\ PadLeft = 0 /\ PadRight = 0 /\ c.scaledW <= c.printW
      BY <1>3, <1>14, <2>1 DEF Moves
    <2>3. AreaWidth = c.scaledW /\ PageWidth = c.scaledW /\ LeftCut = 0
      BY <1>3, <2>1, <2>2 DEF Least, LeftCut, Greatest
    <2>4. ASSUME NEW x \in 0 .. AreaWidth - 1
          PROVE  out'[(req.blank + j) * PageWidth + (PadLeft + x)] = Ink(req.blank + j, x)
      <3>1. out'[base + (j * c.scaledW + x)] = ScaledPixel(req.at + j, x)
        <4>1. j + Needed.offset = j
          BY <1>3, <2>2
        <4> QED  BY <1>9, <2>3, <4>1
      <3>2. (req.blank + j) * PageWidth + (PadLeft + x) = base + (j * c.scaledW + x)
        <4>1. (req.blank + j) * PageWidth = req.blank * PageWidth + j * PageWidth
          BY <1>3
        <4>2. j * PageWidth \in Int
          BY <1>3
        <4>3. PadLeft + x = x
          BY <2>1, <2>2
        <4> DEFINE v == j * PageWidth
        <4>4. v \in Int /\ (req.blank + j) * PageWidth = base + v /\ v = j * c.scaledW
          BY <1>6, <2>3, <4>1, <4>2
        <4> HIDE DEF v
        <4>5. base + v + x = base + (v + x)
          BY <4>4, <2>1
        <4> QED  BY <4>3, <4>4, <4>5
      <3>3. Ink(req.blank + j, x) = ScaledPixel(req.at + j, x)
        <4>1. sent \in Int /\ FirstAsked = sent + req.blank - PadTop
          BY <1>2 DEF Shapes, FirstAsked
        <4>2. sent + (req.blank + j) - PadTop + TopCut = req.at + j
          BY <1>3, <2>1, <4>1
        <4> QED  BY <2>1, <2>3, <4>2 DEF Ink
      <3> QED  BY <3>1, <3>2, <3>3
    <2>5. req'.blank = req.blank /\ req.blank + j \in Int
      BY <1>3, <1>5
    <2>6. InkedRow(req.blank + j)' <=>
            \A x \in 0 .. AreaWidth - 1 :
              out'[(req.blank + j) * PageWidth + (PadLeft + x)] = Ink(req.blank + j, x)
      <3>1. PICK r \in Int : r = req.blank + j
        BY <2>5
      <3>2. r = req'.blank + j
        BY <2>5, <3>1
      <3>3. InkedRow(r)' <=> \A x \in 0 .. AreaWidth - 1 :
                            out'[r * PageWidth + (PadLeft + x)] = Ink(r, x)
        BY <1>1, <2>5, SameInk
      <3> QED  BY <3>1, <3>2, <3>3 DEF InkedRow
    <2> QED  BY <2>4, <2>6
  <1>15. MoveInv'
    <2>1. req'.moved = mv
      BY <1>5
    <2>2. req'.moved \in 0 .. ToMake'
      BY <1>3, <1>4, <1>10, <2>1
    <2>3. ASSUME NEW j \in 0 .. ToMake - 1
          PROVE  IF IsMoved(j)' THEN InkedRow(req.blank + j)' ELSE ScaledRow(j)'
      <3>1. CASE Moves
        <4>1. ~ IsMoved(j)'
          BY <1>3, <1>4, <1>10, <2>1, <3>1 DEF IsMoved
        <4> QED  BY <1>13, <4>1
      <3>2. CASE ~ Moves
        <4>1. IsMoved(j)'
          BY <1>3, <1>4, <1>10, <2>1, <3>2 DEF IsMoved
        <4> QED  BY <1>14, <3>2, <4>1
      <3> QED  BY <3>1, <3>2
    <2> QED  BY <1>10, <2>2, <2>3 DEF MoveInv
  <1>16. CallInv'
    BY <1>1, <1>12, <1>15 DEF CallInv
  <1>17. /\ DOMAIN out' = DOMAIN out /\ out' = [i \in DOMAIN out |-> out'[i]]
         /\ \A i \in DOMAIN out : out'[i] \in Colours
    <2>1. ASSUME NEW i \in DOMAIN out PROVE out'[i] \in Colours
      <3>1. i \in Int /\ out[i] \in Colours
        BY <1>2, <1>8 DEF Shapes
      <3>2. CASE ~ (i >= base /\ i < base + Needed.rows * c.scaledW)
        BY <1>7, <3>1, <3>2
      <3>3. CASE i >= base /\ i < base + Needed.rows * c.scaledW
        <4>1. /\ (i - base) \div c.scaledW \in Nat /\ (i - base) % c.scaledW \in Nat
          <5>1. i - base \in Int /\ c.scaledW * 0 <= i - base
            BY <1>3, <3>1, <3>3
          <5>2. 0 <= (i - base) \div c.scaledW
            BY <1>3, <5>1, QuotientAtLeast
          <5> QED  BY <1>3, <5>1, <5>2, Division
        <4>2. out'[i] = ScaledPixel(Needed.start + (i - base) \div c.scaledW,
                                    (i - base) % c.scaledW)
          BY <1>7, <3>3
        <4>3. Needed.start + (i - base) \div c.scaledW \in Nat
          BY <1>3, <4>1
        <4> QED  BY <4>1, <4>2, <4>3 DEF Colours, ScaledPixel
      <3> QED  BY <3>2, <3>3
    <2> QED  BY <1>7, <2>1
  <1>18. \A r \in 0 .. req.blank - 1, x \in 0 .. PageWidth - 1 : out'[r * PageWidth + x] = Blank
    <2>1. \A i \in DOMAIN out : i < base => out'[i] = out[i]
      BY <1>7, <1>8
    <2>2. \A r \in 0 .. req.blank - 1, x \in 0 .. PageWidth - 1 :
            r * PageWidth + x \in DOMAIN out
      <3>1. req.blank <= c.outRows
        BY <1>3
      <3> QED  BY <1>2, <1>3, <1>8, <3>1, WhiteIsInBuffer
    <2>3. \A r \in 0 .. req.blank - 1, x \in 0 .. PageWidth - 1 : out[r * PageWidth + x] = Blank
      BY <1>2 DEF Begun
    <2>4. req.blank \in Nat /\ PageWidth \in Nat
      BY <1>3
    <2>5. PICK b \in Nat, pw \in Nat : b = req.blank /\ pw = PageWidth
      BY <2>4
    <2>6. /\ base = b * pw /\ base \in Int
          /\ \A r \in 0 .. b - 1, x \in 0 .. pw - 1 : r * pw + x \in DOMAIN out
          /\ \A r \in 0 .. b - 1, x \in 0 .. pw - 1 : out[r * pw + x] = Blank
      BY <1>6, <2>2, <2>3, <2>5
    <2>7. \A r \in 0 .. b - 1, x \in 0 .. pw - 1 : out'[r * pw + x] = Blank
      BY <2>1, <2>5, <2>6, WhiteStays
    <2> QED  BY <2>5, <2>7
  <1>19. /\ req'.blank = req.blank /\ req'.rc = "ok" /\ req' = [f \in ReqFields |-> req'[f]]
         /\ \A f \in ReqFields \ {"rc"} : req'[f] \in Int
    <2>1. mv \in Int
      BY <1>4
    <2> QED  BY <1>5, <2>1 DEF ReqFields
  <1> QED  BY <1>1, <1>16, <1>17, <1>18, <1>19, CallStep DEF InCall

(* A row that moves takes its place; the others stay as they are.          *)
LEMMA MovedRow ==
  ASSUME NEW f, NEW base \in Int, NEW b \in Nat, NEW pw \in Nat, base = b * pw,
         NEW sw \in Nat, NEW left \in Nat, NEW aw \in Nat, left + aw <= pw,
         NEW cut \in Nat, cut + aw <= sw, NEW off \in {0, 1}, NEW m \in Nat,
         NEW to \in Int, to = (b + m) * pw + left,
         NEW from \in Int, from = base + (m + off) * sw + cut,
         NEW dom \in SUBSET Int, NEW g,
         \A i \in dom : g[i] = IF i >= to /\ i < to + aw THEN f[from + (i - to)] ELSE f[i]
  PROVE  /\ to = base + m * pw + left
         /\ \A x \in 0 .. aw - 1 :
              (b + m) * pw + (left + x) \in dom =>
                g[(b + m) * pw + (left + x)] = f[base + ((m + off) * sw + (cut + x))]
         /\ \A j \in Nat, x \in 0 .. aw - 1 :
              j # m /\ (b + j) * pw + (left + x) \in dom =>
                g[(b + j) * pw + (left + x)] = f[(b + j) * pw + (left + x)]
         /\ \A j \in Nat, x \in 0 .. sw - 1 :
              /\ (pw < sw /\ m < j) \/ (sw <= pw /\ j < m /\ off = 0)
              /\ base + ((j + off) * sw + x) \in dom
              => g[base + ((j + off) * sw + x)] = f[base + ((j + off) * sw + x)]
         /\ \A i \in dom : i < base => g[i] = f[i]
  <1> DEFINE mp == m * pw
             os == (m + off) * sw
             t  == (b + m) * pw
  <1>1. /\ mp \in Int /\ os \in Int /\ t \in Int /\ t = base + mp /\ 0 <= mp
    <2>1. 0 * pw <= mp
      BY Grows
    <2> QED  BY <2>1
  <1>2. to = base + mp + left
    <2> HIDE DEF mp, t
    <2>1. to = t + left
      BY DEF t
    <2> QED  BY <1>1, <2>1
  <1>3. ASSUME NEW x \in 0 .. aw - 1, (b + m) * pw + (left + x) \in dom
        PROVE  g[(b + m) * pw + (left + x)] = f[base + ((m + off) * sw + (cut + x))]
    <2>1. to = t + left /\ from = base + os + cut /\ t + (left + x) \in dom
      BY <1>3
    <2> SUFFICES g[t + (left + x)] = f[base + (os + (cut + x))]
      OBVIOUS
    <2> HIDE DEF t, os
    <2>2. PICK i \in dom : i = t + (left + x)
      BY <2>1
    <2>3. i >= to /\ i < to + aw /\ from + (i - to) = base + (os + (cut + x))
      BY <1>1, <2>1, <2>2
    <2>4. g[i] = f[from + (i - to)]
      BY <2>2, <2>3
    <2> QED  BY <2>2, <2>3, <2>4
  <1>4. ASSUME NEW j \in Nat, NEW x \in 0 .. aw - 1, j # m, (b + j) * pw + (left + x) \in dom
        PROVE  g[(b + j) * pw + (left + x)] = f[(b + j) * pw + (left + x)]
    <2>1. PICK i \in dom : i = (b + j) * pw + (left + x)
      BY <1>4
    <2>2. b + j # b + m /\ b + j \in Int /\ b + m \in Int
      BY <1>4
    <2>3. ~ (i >= to /\ i < to + aw)
      <3>1. PICK r \in Int, s \in Int : r = b + j /\ s = b + m
        BY <2>2
      <3>2. LET too == s * pw + left
                p  == r * pw + (left + x)
            IN ~ (p >= too /\ p < too + aw)
        BY <2>2, <3>1, OtherRow
      <3> QED  BY <2>1, <3>1, <3>2
    <2> QED  BY <2>1, <2>3
  <1>5. ASSUME NEW j \in Nat, NEW x \in 0 .. sw - 1,
               (pw < sw /\ m < j) \/ (sw <= pw /\ j < m /\ off = 0),
               base + ((j + off) * sw + x) \in dom
        PROVE  g[base + ((j + off) * sw + x)] = f[base + ((j + off) * sw + x)]
    <2>1. PICK i \in dom : i = base + ((j + off) * sw + x)
      BY <1>5
    <2>2. ~ (i >= to /\ i < to + aw)
      BY <1>2, <1>5, <2>1, NotOverwritten
    <2> QED  BY <2>1, <2>2
  <1>6. ASSUME NEW i \in dom, i < base PROVE g[i] = f[i]
    <2>1. i < to
      <3> HIDE DEF mp
      <3> QED  BY <1>1, <1>2, <1>6
    <2>2. i \in Int /\ ~ (i >= to)
      BY <1>6, <2>1
    <2> QED  BY <2>2
  <1> QED  BY <1>2, <1>3, <1>4, <1>5, <1>6

(* A row moves to its place, and no row still to move is lost.           *)
LEMMA MoveRowKeeps ==
  ASSUME StripesInv, MoveRow
  PROVE  StripesInv'
  <1>1. /\ pc = "move" /\ pc' = "move" /\ req.moved < StripeRows
        /\ page' = page /\ c' = c /\ dec' = dec /\ cache' = cache /\ win' = win /\ sent' = sent
        /\ req' = [req EXCEPT !.moved = @ + 1]
    BY DEF MoveRow
  <1>2. /\ page \in Pages /\ c = OutputProperties(page) /\ req.rc = "ok" /\ Shapes /\ Begun
        /\ CallInv /\ sent \in Nat
    BY <1>1, CallFacts DEF InCall
  <1>3. /\ ToScale /\ FullWindow /\ Asked /\ c.scale # "none"
        /\ req.at = FirstAsked + TopCut /\ StripeRows = ToMake
        /\ req.height = req.blank /\ req.at \in Nat
        /\ req.blank \in Nat /\ FirstAsked \in Nat /\ TopCut \in Nat /\ LeftCut \in Nat
        /\ ToMake \in Nat /\ req.blank + ToMake <= StripHeight
        /\ StripHeight <= c.outRows /\ c.outRows \in Nat
        /\ Needed.offset \in {0, 1} /\ (Needed.offset = 1 => ToMake = 1)
        /\ req.blank + ToMake + Needed.offset <= c.outRows
        /\ AreaWidth \in Nat \ {0} /\ PadLeft \in Nat /\ PadRight \in Nat
        /\ PadTop \in Nat /\ StripHeight \in Nat
        /\ PageWidth = PadLeft + AreaWidth + PadRight
        /\ AreaWidth = Least(c.scaledW, c.printW) /\ LeftCut + AreaWidth <= c.scaledW
        /\ c.scaledW \in Nat \ {0} /\ PageWidth \in Nat \ {0}
    BY <1>1, ScalerFacts
  <1>4. MoveInv
    BY <1>1, <1>2 DEF CallInv
  <1>5. PICK b \in Nat, pw \in Nat, sw \in Nat, left \in Nat, aw \in Nat, cut \in Nat,
             off \in {0, 1}, n \in Nat :
          /\ b = req.blank /\ pw = PageWidth /\ sw = c.scaledW /\ left = PadLeft
          /\ aw = AreaWidth /\ cut = LeftCut /\ off = Needed.offset /\ n = ToMake
    BY <1>3
  <1>6. PICK mv \in 0 .. n - 1 : mv = req.moved
    BY <1>1, <1>3, <1>4, <1>5 DEF MoveInv
  <1>7. PICK m \in 0 .. n - 1 : m = (IF pw < sw THEN mv ELSE n - 1 - mv)
    BY <1>5, <1>6
  <1>8. PICK base \in Int, to \in Int, from \in Int :
          base = b * pw /\ to = (b + m) * pw + left /\ from = base + (m + off) * sw + cut
    BY <1>5, <1>7
  <1>9. out' = [i \in DOMAIN out |-> IF i >= to /\ i < to + aw
                                     THEN out[from + (i - to)] ELSE out[i]]
    <2>1. MoveOrder(req.moved) = m
      BY <1>3, <1>5, <1>6, <1>7 DEF MoveOrder
    <2>2. (req.height + MoveOrder(req.moved)) * PageWidth + PadLeft = to
      BY <1>3, <1>5, <1>8, <2>1
    <2>3. req.height * PageWidth + (MoveOrder(req.moved) + Needed.offset) * c.scaledW
            + Greatest(0, c.scaledW - c.printW) \div 2 = from
      BY <1>3, <1>5, <1>8, <2>1 DEF LeftCut
    <2>4. Least(c.scaledW, c.printW) = aw
      BY <1>3, <1>5
    <2> QED  BY <2>2, <2>3, <2>4 DEF MoveRow
  <1>10. DOMAIN out = 0 .. BufferSize - 1 /\ BufferSize \in Nat
    BY <1>2, CachedRows DEF Begun
  <1>11. left + aw <= pw /\ cut + aw <= sw /\ n >= 1 /\ (off = 1 => n = 1)
    BY <1>3, <1>5, <1>6
  <1>12. /\ \A x \in 0 .. aw - 1 :
              (b + m) * pw + (left + x) \in DOMAIN out =>
                out'[(b + m) * pw + (left + x)] = out[base + ((m + off) * sw + (cut + x))]
         /\ \A j \in Nat, x \in 0 .. aw - 1 :
              j # m /\ (b + j) * pw + (left + x) \in DOMAIN out =>
                out'[(b + j) * pw + (left + x)] = out[(b + j) * pw + (left + x)]
         /\ \A j \in Nat, x \in 0 .. sw - 1 :
              /\ (pw < sw /\ m < j) \/ (sw <= pw /\ j < m /\ off = 0)
              /\ base + ((j + off) * sw + x) \in DOMAIN out
              => out'[base + ((j + off) * sw + x)] = out[base + ((j + off) * sw + x)]
         /\ \A i \in DOMAIN out : i < base => out'[i] = out[i]
    <2>1. /\ b \in Nat /\ pw \in Nat /\ sw \in Nat /\ left \in Nat /\ aw \in Nat /\ cut \in Nat
          /\ off \in {0, 1} /\ base \in Int /\ to \in Int /\ from \in Int
          /\ base = b * pw /\ to = (b + m) * pw + left /\ from = base + (m + off) * sw + cut
          /\ left + aw <= pw /\ cut + aw <= sw /\ DOMAIN out \in SUBSET Int /\ m \in Nat
      BY <1>5, <1>7, <1>8, <1>10, <1>11
    <2>2. \A i \in DOMAIN out : out'[i] = IF i >= to /\ i < to + aw
                                        THEN out[from + (i - to)] ELSE out[i]
      BY <1>9
    <2> QED  BY <2>1, <2>2, MovedRow, SMTT(60)
  (* Where the rows are in the buffer, and what they hold.                 *)
  <1>13. ASSUME NEW j \in 0 .. n - 1, NEW x \in 0 .. aw - 1
         PROVE  (b + j) * pw + (left + x) \in DOMAIN out
    <2>1. b + j \in Nat /\ left + x \in Nat /\ b + j < c.outRows /\ left + x < PageWidth
      BY <1>3, <1>5, <1>11
    <2>2. (b + j) * PageWidth + (left + x) \in 0 .. BufferSize - 1
      BY <1>2, <2>1, RowInBuffer
    <2> QED  BY <1>5, <1>10, <2>2
  <1>14. ASSUME NEW j \in 0 .. n - 1, NEW x \in 0 .. sw - 1
         PROVE  base + ((j + off) * sw + x) \in DOMAIN out
    <2>1. j + off \in Nat /\ x \in Nat /\ b + (j + off) < c.outRows /\ x < c.scaledW
      BY <1>3, <1>5
    <2>2. b * PageWidth + ((j + off) * c.scaledW + x) \in 0 .. BufferSize - 1
      BY <1>2, <1>5, <2>1, InBuffer
    <2> QED  BY <1>5, <1>8, <1>10, <2>2
  <1>15. /\ req' = [start |-> req.start, rows |-> req.rows, height |-> req.height,
                   blank |-> req.blank, at |-> req.at, count |-> req.count, y |-> req.y,
                   got |-> req.got, scaled |-> req.scaled, moved |-> mv + 1, rc |-> "ok"]
        /\ {req.start, req.rows, req.height, req.blank, req.at, req.count, req.y, req.got,
            req.scaled, req.moved} \subseteq Int
    <2>1. /\ req = [start |-> req.start, rows |-> req.rows, height |-> req.height,
                    blank |-> req.blank, at |-> req.at, count |-> req.count, y |-> req.y,
                    got |-> req.got, scaled |-> req.scaled, moved |-> req.moved, rc |-> req.rc]
          /\ {req.start, req.rows, req.height, req.blank, req.at, req.count, req.y, req.got,
              req.scaled, req.moved} \subseteq Int
      BY <1>1, ReqShape DEF InCall
    <2>2. req' = [req EXCEPT !.moved = mv + 1]
      BY <1>1, <1>6
    <2> QED  BY <1>2, <2>1, <2>2
  <1>16. /\ StripeTotal' = StripeTotal /\ FirstAsked' = FirstAsked /\ ToMake' = ToMake
         /\ TopCut' = TopCut /\ PageWidth' = PageWidth
    BY <1>1, <1>15, SameCall, SamePage
  <1>17. ToScale'
    <2>1. Asked'
      BY <1>3, <1>6, <1>15, <1>16 DEF Asked
    <2>2. Accounts(0)'
      <3>1. Accounts(0) /\ sent' = sent
        BY <1>1, <1>3 DEF ToScale
      <3>2. /\ req'.height = req.height /\ req'.blank = req.blank /\ req'.start = req.start
            /\ req'.rows = req.rows
        BY <1>15
      <3> QED  BY <1>16, <3>1, <3>2 DEF Accounts
    <2>3. req'.at = req.at /\ req'.scaled = req.scaled
      BY <1>15
    <2> QED  BY <1>1, <1>3, <1>16, <2>1, <2>2, <2>3 DEF ToScale
  <1>18. FullWindow'
    <2>1. WindowInv /\ Len(win.rows) = win.last - win.first + 1
      BY <1>3 DEF FullWindow
    <2>2. Needed' = Needed
      <3>1. req'.at = req.at /\ req'.scaled = req.scaled
        BY <1>15
      <3> QED  BY <1>1, <3>1, SameNeeded
    <2>3. WindowRight'
      BY <1>1, <2>1, SameWindow DEF WindowInv
    <2> QED  BY <1>1, <1>17, <2>1, <2>2, <2>3 DEF FullWindow, WindowInv
  (* The rows as MoveInv tells of them.                                    *)
  <1>19. ASSUME NEW j \in 0 .. n - 1
         PROVE  IF (IF pw < sw THEN j < mv ELSE j >= n - mv)
                THEN \A x \in 0 .. aw - 1 : out[(b + j) * pw + (left + x)] = Ink(b + j, x)
                ELSE \A x \in 0 .. sw - 1 :
                       out[base + ((j + off) * sw + x)] = ScaledPixel(req.at + j, x)
    <2>1. IsMoved(j) <=> (IF pw < sw THEN j < mv ELSE j >= n - mv)
      BY <1>5, <1>6 DEF IsMoved
    <2>2. InkedRow(req.blank + j) =>
             \A x \in 0 .. aw - 1 : out[(b + j) * pw + (left + x)] = Ink(b + j, x)
      BY <1>5 DEF InkedRow
    <2>3. ScaledRow(j) =>
             \A x \in 0 .. sw - 1 : out[base + ((j + off) * sw + x)] = ScaledPixel(req.at + j, x)
      BY <1>5, <1>8 DEF ScaledRow
    <2>4. IF IsMoved(j) THEN InkedRow(req.blank + j) ELSE ScaledRow(j)
      BY <1>4, <1>5 DEF MoveInv
    <2> QED  BY <2>1, <2>2, <2>3, <2>4
  <1>20. ASSUME NEW x \in 0 .. aw - 1
         PROVE  /\ Ink(b + m, x) = ScaledPixel(req.at + m, x + cut) /\ cut + x \in 0 .. sw - 1
                /\ out[base + ((m + off) * sw + (cut + x))] = Ink(b + m, x)
    <2>1. Ink(b + m, x) = ScaledPixel(req.at + m, x + cut)
      <3>1. FirstAsked = sent + req.blank - PadTop
        BY DEF FirstAsked
      <3>2. sent + (b + m) - PadTop + TopCut = req.at + m
        BY <1>2, <1>3, <1>5, <1>7, <3>1
      <3> QED  BY <1>3, <1>5, <3>2 DEF Ink
    <2>2. cut + x \in 0 .. sw - 1 /\ cut + x = x + cut
      BY <1>11
    <2>3. out[base + ((m + off) * sw + (cut + x))] = ScaledPixel(req.at + m, cut + x)
      <3>1. ~ (IF pw < sw THEN m < mv ELSE m >= n - mv)
        BY <1>6, <1>7
      <3> QED  BY <1>19, <2>2, <3>1
    <2> QED  BY <2>1, <2>2, <2>3
  <1>21. ASSUME NEW j \in 0 .. n - 1
         PROVE  IF (IF pw < sw THEN j < mv + 1 ELSE j >= n - (mv + 1))
                THEN \A x \in 0 .. aw - 1 : out'[(b + j) * pw + (left + x)] = Ink(b + j, x)
                ELSE \A x \in 0 .. sw - 1 :
                       out'[base + ((j + off) * sw + x)] = ScaledPixel(req.at + j, x)
    <2>1. CASE j = m
      <3>1. IF pw < sw THEN j < mv + 1 ELSE j >= n - (mv + 1)
        BY <1>6, <1>7, <2>1
      <3>2. ASSUME NEW x \in 0 .. aw - 1
            PROVE  out'[(b + m) * pw + (left + x)] = Ink(b + m, x)
        <4>1. (b + m) * pw + (left + x) \in DOMAIN out
          BY <1>13
        <4>2. out'[(b + m) * pw + (left + x)] = out[base + ((m + off) * sw + (cut + x))]
          BY <1>12, <4>1
        <4> QED  BY <1>20, <4>2
      <3> QED  BY <2>1, <3>1, <3>2
    <2>2. CASE j # m /\ (IF pw < sw THEN j < mv + 1 ELSE j >= n - (mv + 1))
      <3>1. IF pw < sw THEN j < mv ELSE j >= n - mv
        BY <1>6, <1>7, <2>2
      <3>2. ASSUME NEW x \in 0 .. aw - 1
            PROVE  out'[(b + j) * pw + (left + x)] = Ink(b + j, x)
        <4>1. (b + j) * pw + (left + x) \in DOMAIN out
          BY <1>13
        <4>2. out'[(b + j) * pw + (left + x)] = out[(b + j) * pw + (left + x)]
          BY <1>12, <2>2, <4>1, j \in Nat, Zenon
        <4>3. out[(b + j) * pw + (left + x)] = Ink(b + j, x)
          BY <1>19, <3>1
        <4> QED  BY <4>2, <4>3
      <3> QED  BY <2>2, <3>2
    <2>3. CASE ~ (IF pw < sw THEN j < mv + 1 ELSE j >= n - (mv + 1))
      <3>1. ~ (IF pw < sw THEN j < mv ELSE j >= n - mv)
        BY <1>6, <1>7, <2>3
      <3>2. (pw < sw /\ m < j) \/ (sw <= pw /\ j < m /\ off = 0)
        BY <1>5, <1>6, <1>7, <1>11, <2>3
      <3>3. ASSUME NEW x \in 0 .. sw - 1
            PROVE  out'[base + ((j + off) * sw + x)] = ScaledPixel(req.at + j, x)
        <4>1. base + ((j + off) * sw + x) \in DOMAIN out
          BY <1>14
        <4>2. out'[base + ((j + off) * sw + x)] = out[base + ((j + off) * sw + x)]
          BY <1>12, <3>2, <4>1, j \in Nat, Zenon
        <4>3. out[base + ((j + off) * sw + x)] = ScaledPixel(req.at + j, x)
          BY <1>19, <3>1
        <4> QED  BY <4>2, <4>3
      <3> QED  BY <2>3, <3>3
    <2> QED  BY <2>1, <2>2, <2>3
  <1>22. MoveInv'
    <2>1. req'.moved = mv + 1 /\ req'.blank = req.blank /\ req'.at = req.at
          /\ req'.scaled = req.scaled
      BY <1>15
    <2>2. req'.moved \in 0 .. ToMake'
      BY <1>5, <1>6, <1>16, <2>1
    <2>3. ASSUME NEW j \in 0 .. n - 1
          PROVE  IF IsMoved(j)' THEN InkedRow(req.blank + j)' ELSE ScaledRow(j)'
      <3>1. IsMoved(j)' <=> (IF pw < sw THEN j < mv + 1 ELSE j >= n - (mv + 1))
        BY <1>1, <1>5, <1>16, <2>1 DEF IsMoved
      <3>2. PICK r \in Int : r = b + j
        BY <1>5
      <3>3. InkedRow(r)' <=> \A x \in 0 .. AreaWidth - 1 :
                                out'[r * PageWidth + (PadLeft + x)] = Ink(r, x)
        BY <1>1, <2>1, SameInk
      <3>4. InkedRow(req.blank + j)' <=>
              \A x \in 0 .. aw - 1 : out'[(b + j) * pw + (left + x)] = Ink(b + j, x)
        <4>1. req'.blank + j = r
          BY <1>5, <2>1, <3>2
        <4> QED  BY <1>5, <3>2, <3>3, <4>1 DEF InkedRow
      <3>5. ScaledRow(j)' <=>
              \A x \in 0 .. sw - 1 : out'[base + ((j + off) * sw + x)] = ScaledPixel(req.at + j, x)
        <4>1. j \in Int
          OBVIOUS
        <4>2. ScaledRow(j)' <=> \A x \in 0 .. c.scaledW - 1 :
               out'[req.blank * PageWidth + ((j + Needed.offset) * c.scaledW + x)]
                 = ScaledPixel(req.at + j, x)
          BY <1>1, <2>1, <4>1, SameScaled
        <4> QED  BY <1>5, <1>8, <4>2
      <3> QED  BY <1>21, <3>1, <3>4, <3>5
    <2>4. ToMake' = n
      BY <1>5, <1>16
    <2> QED  BY <2>2, <2>3, <2>4 DEF MoveInv
  <1>23. CallInv'
    BY <1>1, <1>18, <1>22 DEF CallInv
  <1>24. /\ DOMAIN out' = DOMAIN out /\ out' = [i \in DOMAIN out |-> out'[i]]
         /\ \A i \in DOMAIN out : out'[i] \in Colours
    <2>1. ASSUME NEW i \in DOMAIN out PROVE out'[i] \in Colours
      <3>1. i \in Int /\ out[i] \in Colours
        BY <1>2, <1>10 DEF Shapes
      <3>2. CASE ~ (i >= to /\ i < to + aw)
        BY <1>9, <3>1, <3>2
      <3>3. CASE i >= to /\ i < to + aw
        <4>1. PICK x \in 0 .. aw - 1 : x = i - to
          BY <1>5, <1>8, <3>1, <3>3
        <4>2. from + (i - to) = base + ((m + off) * sw + (cut + x))
          <5> DEFINE os == (m + off) * sw
          <5>1. os \in Int /\ from = base + os + cut
            BY <1>5, <1>7, <1>8
          <5> HIDE DEF os
          <5>2. from + (i - to) = base + (os + (cut + x))
            BY <1>5, <1>8, <3>1, <4>1, <5>1
          <5> QED  BY <5>2 DEF os
        <4>3. out'[i] = ScaledPixel(req.at + m, x + cut)
          BY <1>9, <1>20, <3>3, <4>1, <4>2
        <4>4. req.at + m \in Nat /\ x + cut \in Nat
          BY <1>3, <1>5, <1>7, <4>1
        <4> QED  BY <4>3, <4>4 DEF Colours, ScaledPixel
      <3> QED  BY <3>2, <3>3
    <2> QED  BY <1>9, <2>1
  <1>25. \A r \in 0 .. req.blank - 1, x \in 0 .. PageWidth - 1 : out'[r * PageWidth + x] = Blank
    <2>1. \A r \in 0 .. req.blank - 1, x \in 0 .. PageWidth - 1 :
            r * PageWidth + x \in DOMAIN out
      <3>1. req.blank <= c.outRows
        BY <1>3
      <3> QED  BY <1>2, <1>3, <1>10, <3>1, WhiteIsInBuffer
    <2>2. \A r \in 0 .. req.blank - 1, x \in 0 .. PageWidth - 1 : out[r * PageWidth + x] = Blank
      BY <1>2 DEF Begun
    <2>3. /\ \A r \in 0 .. b - 1, x \in 0 .. pw - 1 : r * pw + x \in DOMAIN out
          /\ \A r \in 0 .. b - 1, x \in 0 .. pw - 1 : out[r * pw + x] = Blank
      BY <1>5, <2>1, <2>2
    <2>4. \A i \in DOMAIN out : i < base => out'[i] = out[i]
      BY <1>12
    <2>5. base = b * pw /\ base \in Int
      BY <1>8
    <2>6. \A r \in 0 .. b - 1, x \in 0 .. pw - 1 : out'[r * pw + x] = Blank
      <3> TAKE r \in 0 .. b - 1, x \in 0 .. pw - 1
      <3>1. r * pw + x < b * pw
        BY <1>5, BeforeRow
      <3>2. PICK i \in DOMAIN out : i = r * pw + x
        BY <2>3
      <3>3. out[i] = Blank /\ i < base
        BY <2>3, <2>5, <3>1, <3>2
      <3> QED  BY <2>4, <3>2, <3>3
    <2> QED  BY <1>5, <2>6
  <1>26. /\ req'.blank = req.blank /\ req'.rc = "ok" /\ req' = [f \in ReqFields |-> req'[f]]
         /\ \A f \in ReqFields \ {"rc"} : req'[f] \in Int
    <2>1. mv + 1 \in Int
      BY <1>6
    <2> QED  BY <1>15, <2>1 DEF ReqFields
  <1> QED  BY <1>1, <1>23, <1>24, <1>25, <1>26, CallStep DEF InCall

(* The sides of the rows, and the rows below the image, become white.    *)
LEMMA SidesKeeps ==
  ASSUME StripesInv, Sides
  PROVE  StripesInv'
  <1> DEFINE below == IF page.padAll /\ req.rows > 0 /\ req.start >= PadTop + AreaHeight
                      THEN Least(req.rows, PageHeight - req.start) ELSE 0
             side(i) == /\ i \div PageWidth \in req.blank .. req.height - 1
                        /\ \/ i % PageWidth < PadLeft
                           \/ i % PageWidth >= PageWidth - PadRight
             under(i) == i \div PageWidth \in req.height .. req.height + below - 1
  <1>1. /\ pc = "sides" /\ pc' = "return"
        /\ page' = page /\ c' = c /\ dec' = dec /\ cache' = cache /\ win' = win /\ sent' = sent
        /\ req' = [req EXCEPT !.height = @ + below]
    BY DEF Sides
  <1>a. out' = [i \in DOMAIN out |-> IF side(i) \/ under(i) THEN Blank ELSE out[i]]
    BY DEF Sides
  <1>2. /\ page \in Pages /\ c = OutputProperties(page) /\ req.rc = "ok" /\ Shapes /\ Begun
        /\ CallInv /\ sent \in Nat /\ sent < PageHeight /\ req.blank = WhiteRows
    BY <1>1, CallFacts DEF InCall
  <1>3. Asked /\ Accounts(ToMake) /\ Inked(ToMake) /\ KeptAfterCall
    BY <1>1, <1>2 DEF CallInv
  <1>4. /\ req.blank < StripeTotal /\ req.blank \in Nat /\ StripeTotal \in Nat
        /\ StripeTotal <= StripHeight /\ StripHeight \in Nat
        /\ FirstAsked \in Nat /\ ToMake \in Nat /\ TopCut \in Nat /\ ToMake >= 1
        /\ ToMake <= StripeTotal - req.blank
        /\ sent + StripeTotal <= PageHeight
        /\ req.blank > 0 => sent + req.blank = PadTop
        /\ c.scale = "none" => FirstAsked + ToMake <= AreaHeight
        /\ c.scale # "none" => FirstAsked + TopCut + ToMake <= c.scaledH
        /\ ToMake < StripeTotal - req.blank => page.padAll
        /\ ToMake = StripeTotal - req.blank \/ FirstAsked + ToMake >= AreaHeight
    <2>1. req.blank < StripeTotal
      BY <1>3 DEF Asked
    <2>2. /\ StripeTotal \in 1 .. StripHeight /\ sent + StripeTotal <= PageHeight
          /\ StripHeight \in Nat \ {0} /\ req.blank \in 0 .. StripeTotal /\ TopCut \in Nat
          /\ FirstAsked \in 0 .. AreaHeight - 1
          /\ req.blank > 0 => sent + req.blank = PadTop
          /\ ToMake \in 1 .. StripeTotal - req.blank
          /\ LeftToMake \in Int
          /\ ToMake = StripeTotal - req.blank \/ ToMake = LeftToMake
          /\ c.scale = "none" => FirstAsked + ToMake <= AreaHeight
          /\ c.scale # "none" => FirstAsked + TopCut + ToMake <= c.scaledH
          /\ ToMake < StripeTotal - req.blank => page.padAll
          /\ LeftToMake + FirstAsked >= AreaHeight
      BY <1>2, <2>1, CallIs
    <2>3. AreaHeight \in Nat
      BY <1>2, LayoutIs
    <2> QED  BY <2>1, <2>2, <2>3
  <1>5. /\ AreaWidth \in Nat \ {0} /\ AreaHeight \in Nat \ {0}
        /\ PadLeft \in Nat /\ PadTop \in Nat /\ PadRight \in Nat /\ PageHeight \in Nat
        /\ PageWidth = PadLeft + AreaWidth + PadRight
        /\ AreaHeight = Least(c.scaledH, c.printH)
        /\ c.scaledH \in Nat /\ c.printH \in Nat
        /\ c.scale \in {"none", "autoScale", "autoFit"}
        /\ c.scale = "autoFit" => c.scaledH <= c.printH
        /\ c.outRows \in Nat /\ c.outRows >= StripHeight /\ PageWidth \in Nat \ {0}
    <2>1. PageHeight \in Nat
      BY <1>2, LayoutIs
    <2> QED  BY <1>2, <2>1, LayoutIs, SizesAre, PropertiesAre, ScaledIs, RoomIs
  <1>6. /\ req.height = req.blank + ToMake /\ req.start = sent + req.blank + ToMake
        /\ req.rows = StripeTotal - req.blank - ToMake
    BY <1>2, <1>3, <1>4 DEF Accounts
  <1>7. FirstAsked = sent + req.blank - PadTop
    BY DEF FirstAsked
  <1>8. below \in Int /\ req.height + below = StripeTotal
    <2>1. CASE req.rows = 0
      BY <1>4, <1>6, <2>1
    <2>2. CASE req.rows > 0
      <3>1. page.padAll /\ req.start >= PadTop + AreaHeight
        BY <1>2, <1>4, <1>5, <1>6, <1>7, <2>2
      <3>2. Least(req.rows, PageHeight - req.start) = req.rows
        BY <1>2, <1>4, <1>5, <1>6 DEF Least
      <3>3. below = req.rows
        BY <2>2, <3>1, <3>2
      <3> HIDE DEF below
      <3> QED  BY <1>4, <1>6, <3>3
    <2> QED  BY <1>4, <1>6, <2>1, <2>2
  <1> HIDE DEF below
  <1>9. /\ req' = [start |-> req.start, rows |-> req.rows, height |-> StripeTotal,
                   blank |-> req.blank, at |-> req.at, count |-> req.count, y |-> req.y,
                   got |-> req.got, scaled |-> req.scaled, moved |-> req.moved, rc |-> "ok"]
        /\ {req.start, req.rows, req.height, req.blank, req.at, req.count, req.y, req.got,
            req.scaled, req.moved} \subseteq Int
    <2>1. /\ req = [start |-> req.start, rows |-> req.rows, height |-> req.height,
                    blank |-> req.blank, at |-> req.at, count |-> req.count, y |-> req.y,
                    got |-> req.got, scaled |-> req.scaled, moved |-> req.moved, rc |-> req.rc]
          /\ {req.start, req.rows, req.height, req.blank, req.at, req.count, req.y, req.got,
              req.scaled, req.moved} \subseteq Int
      BY <1>1, ReqShape DEF InCall
    <2>2. req' = [req EXCEPT !.height = StripeTotal]
      BY <1>1, <1>8
    <2> QED  BY <1>2, <2>1, <2>2
  <1>10. DOMAIN out = 0 .. BufferSize - 1 /\ BufferSize \in Nat
    BY <1>2, CachedRows DEF Begun
  <1>11. ASSUME NEW r \in 0 .. StripeTotal - 1, NEW x \in 0 .. PageWidth - 1
         PROVE  out'[r * PageWidth + x] =
                  IF \/ r \in req.blank .. req.height - 1
                          /\ (x < PadLeft \/ x >= PageWidth - PadRight)
                     \/ r >= req.height
                  THEN Blank ELSE out[r * PageWidth + x]
    <2>1. PICK i : i = r * PageWidth + x
      OBVIOUS
    <2>2. i \in DOMAIN out
      <3>1. r \in Nat /\ x \in Nat /\ r < c.outRows /\ x < PageWidth
        BY <1>4, <1>5
      <3> QED  BY <1>2, <1>10, <2>1, <3>1, RowInBuffer
    <2>3. i \div PageWidth = r /\ i % PageWidth = x
      <3>1. r \in Int /\ PageWidth \in Nat \ {0}
        BY <1>5
      <3> QED  BY <2>1, <3>1, PlaceIs
    <2>4. under(i) <=> r >= req.height
      BY <1>4, <1>6, <1>8, <2>3
    <2>5. side(i) <=> /\ r \in req.blank .. req.height - 1
                      /\ (x < PadLeft \/ x >= PageWidth - PadRight)
      BY <2>3
    <2>6. out'[i] = IF side(i) \/ under(i) THEN Blank ELSE out[i]
      BY <1>a, <2>2
    <2> HIDE DEF side, under
    <2> QED  BY <2>1, <2>4, <2>5, <2>6
  <1>12. \A r \in 0 .. req.blank - 1, x \in 0 .. PageWidth - 1 : out'[r * PageWidth + x] = Blank
    <2> TAKE r \in 0 .. req.blank - 1, x \in 0 .. PageWidth - 1
    <2>1. r \in 0 .. StripeTotal - 1 /\ r \notin req.blank .. req.height - 1 /\ ~ (r >= req.height)
      BY <1>4, <1>6
    <2>2. out[r * PageWidth + x] = Blank
      BY <1>2 DEF Begun
    <2> QED  BY <1>11, <2>1, <2>2
  <1>13. /\ DOMAIN out' = DOMAIN out /\ out' = [i \in DOMAIN out |-> out'[i]]
         /\ \A i \in DOMAIN out : out'[i] \in Colours
    <2>1. \A i \in DOMAIN out : out[i] \in Colours
      BY <1>2 DEF Shapes
    <2>2. Blank \in Colours
      BY DEF Colours
    <2> HIDE DEF side, under
    <2>3. ASSUME NEW i \in DOMAIN out PROVE out'[i] \in Colours
      BY <1>a, <2>1, <2>2
    <2> QED  BY <1>a, <2>3
  <1>14. ASSUME NEW r \in 0 .. StripeTotal - 1, NEW x \in 0 .. PageWidth - 1, NEW row \in Nat,
                row = sent + r
         PROVE  Overprinted(row) \/ out'[r * PageWidth + x] = Made(row, x)
    <2>1. PICK y \in Int : y = row - PadTop
      BY <1>5
    <2>2. y = FirstAsked + (r - req.blank)
      BY <1>2, <1>4, <1>5, <1>7, <1>14, <2>1
    <2>3. CASE r < req.blank
      <3>1. y < 0
        BY <1>2, <1>4, <1>5, <1>14, <2>1, <2>3
      <3>2. Made(row, x) = Blank
        BY <1>5, <2>1, <3>1 DEF Made
      <3>3. r \in 0 .. req.blank - 1
        BY <1>4, <2>3
      <3> QED  BY <1>12, <3>2, <3>3
    <2>4. CASE r >= req.height
      <3>1. y >= AreaHeight
        BY <1>4, <1>5, <1>6, <2>2, <2>4
      <3>2. Made(row, x) = Blank
        BY <1>5, <2>1, <3>1 DEF Made
      <3>3. out'[r * PageWidth + x] = Blank
        BY <1>11, <2>4
      <3> QED  BY <3>2, <3>3
    <2>5. CASE r \in req.blank .. req.height - 1 /\ (x < PadLeft \/ x >= PageWidth - PadRight)
      <3>1. x - PadLeft \notin 0 .. AreaWidth - 1
        BY <1>5, <2>5
      <3>2. Made(row, x) = Blank
        BY <3>1 DEF Made
      <3>3. out'[r * PageWidth + x] = Blank
        BY <1>11, <2>5
      <3> QED  BY <3>2, <3>3
    <2>6. CASE r \in req.blank .. req.height - 1 /\ ~ (x < PadLeft \/ x >= PageWidth - PadRight)
      <3>1. PICK z \in 0 .. AreaWidth - 1 : x = PadLeft + z
        <4>1. x - PadLeft \in 0 .. AreaWidth - 1 /\ x = PadLeft + (x - PadLeft)
          BY <1>5, <2>6
        <4> QED  BY <4>1
      <3>2. InkedRow(r)
        <4>1. r \in req.blank .. req.blank + ToMake - 1
          BY <1>4, <1>6, <2>6
        <4> QED  BY <1>3, <4>1 DEF Inked
      <3>3. out[r * PageWidth + x] = Ink(r, z)
        BY <3>1, <3>2 DEF InkedRow
      <3>4. out'[r * PageWidth + x] = Ink(r, z)
        <4>1. ~ (r >= req.height)
          BY <1>4, <1>6, <2>6
        <4> QED  BY <1>11, <2>6, <3>3, <4>1
      <3>5. CASE y < AreaHeight
        <4>1. y \in 0 .. AreaHeight - 1 /\ x - PadLeft = z /\ row - PadTop = y
          BY <1>4, <1>5, <2>1, <2>2, <2>6, <3>1, <3>5
        <4>2. sent + r - PadTop = y
          BY <1>2, <1>5, <1>14, <2>1
        <4>3. Ink(r, z) = IF c.scale = "none" THEN SeenPixel(y + c.rowOff, z + c.colOff)
                          ELSE ScaledPixel(y + TopCut, z + LeftCut)
          BY <4>2 DEF Ink
        <4>4. Made(row, x) = IF c.scale = "none" THEN SeenPixel(y + c.rowOff, z + c.colOff)
                                 ELSE ScaledPixel(y + TopCut, z + LeftCut)
          BY <4>1, <3>1 DEF Made, TopCut, LeftCut
        <4> QED  BY <3>4, <4>3, <4>4
      <3>6. CASE y >= AreaHeight
        <4>1. r - req.blank < ToMake
          BY <1>4, <1>6, <2>6
        <4>2. c.scale # "none"
          BY <1>4, <1>5, <2>2, <3>6, <4>1
        <4>3. c.scaledH > c.printH
          <5>1. AreaHeight < c.scaledH
            BY <1>4, <1>5, <2>2, <3>6, <4>1, <4>2
          <5> QED  BY <1>5, <5>1 DEF Least
        <4>4. row >= PadTop + AreaHeight
          BY <1>5, <2>1, <3>6
        <4> QED  BY <1>5, <4>2, <4>3, <4>4 DEF Overprinted
      <3> QED  BY <1>5, <2>1, <3>5, <3>6
    <2>7. r < req.blank \/ r >= req.height \/ r \in req.blank .. req.height - 1
      <3>1. r \in Int /\ req.blank \in Int /\ req.height \in Int
        BY <1>4, <1>6
      <3> QED  BY <3>1
    <2> QED  BY <2>3, <2>4, <2>5, <2>6, <2>7
  <1>15. StripeTotal' = StripeTotal /\ PageWidth' = PageWidth /\ TopCut' = TopCut
         /\ PadTop' = PadTop
    BY <1>1, <1>9, SameCall, SamePage
  <1>16. StripeInv'
    <2> SUFFICES ASSUME NEW r \in 0 .. req'.height - 1, NEW x \in 0 .. PageWidth' - 1,
                        NEW row \in Nat, row = sent' + r
                 PROVE  Overprinted(row)' \/ out'[r * PageWidth' + x] = Made(row, x)'
      BY DEF StripeInv
    <2>1. r \in 0 .. StripeTotal - 1 /\ x \in 0 .. PageWidth - 1 /\ row = sent + r
      BY <1>1, <1>9, <1>15
    <2>2. Overprinted(row) \/ out'[r * PageWidth + x] = Made(row, x)
      BY <1>14, <2>1
    <2>3. Made(row, x)' = Made(row, x) /\ (Overprinted(row)' <=> Overprinted(row))
      BY <1>1, <2>1, SameExpected
    <2> QED  BY <1>15, <2>2, <2>3
  <1>17. KeptAfterReturn'
    <2>1. PICK a \in Int : a = FirstAsked + TopCut + ToMake /\ WindowBefore(a)
      BY <1>3 DEF KeptAfterCall
    <2>2. PICK b \in Int : b = sent + StripeTotal - PadTop + TopCut
      BY <1>2, <1>4, <1>5
    <2>3. a <= b
      BY <1>2, <1>4, <1>5, <1>7, <2>1, <2>2
    <2>4. WindowBefore(b)'
      BY <1>1, <1>5, <2>1, <2>3, WindowKept, SameWindow
    <2>5. sent' + req'.height - PadTop' + TopCut' = b
      BY <1>1, <1>9, <1>15, <2>2
    <2> QED  BY <2>4, <2>5 DEF KeptAfterReturn
  <1>18. CallInv'
    <2>1. req'.height \in 1 .. StripeTotal'
      BY <1>4, <1>9, <1>15
    <2> QED  BY <1>1, <1>16, <1>17, <2>1 DEF CallInv
  <1>19. /\ req'.blank = req.blank /\ req'.rc = "ok" /\ req' = [f \in ReqFields |-> req'[f]]
         /\ \A f \in ReqFields \ {"rc"} : req'[f] \in Int
    <2>1. StripeTotal \in Int
      BY <1>4
    <2> QED  BY <1>9, <2>1 DEF ReqFields
  <1> QED  BY <1>1, <1>12, <1>13, <1>18, <1>19, CallStep DEF InCall

(***************************************************************************)
(* The rows that are decoded.                                              *)
(***************************************************************************)

(* What a call is about does not depend on the decoder and the cache.    *)
LEMMA StillDecoding ==
  ASSUME page' = page, c' = c, sent' = sent, req' = req, out' = out, win' = win
  PROVE  (PlainInv' <=> PlainInv) /\ (FillsWindow' <=> FillsWindow)
  <1>1. /\ StripeTotal' = StripeTotal /\ FirstAsked' = FirstAsked /\ ToMake' = ToMake
        /\ TopCut' = TopCut /\ PageWidth' = PageWidth /\ AreaWidth' = AreaWidth
        /\ PadLeft' = PadLeft
    BY SameCall, SamePage
  <1>2. Asked' <=> Asked
    BY <1>1 DEF Asked
  <1>3. \A n : Accounts(n)' <=> Accounts(n)
    BY <1>1 DEF Accounts
  <1>4. \A n : Inked(n)' <=> Inked(n)
    <2>1. \A r \in Int : InkedRow(r)' <=> InkedRow(r)
      BY SameInk DEF InkedRow
    <2>2. ASSUME NEW n PROVE Inked(n)' <=> Inked(n)
      <3>1. ASSUME NEW r \in req.blank .. req.blank + n - 1 PROVE InkedRow(r)' <=> InkedRow(r)
        <4>1. r \in Int
          OBVIOUS
        <4> QED  BY <2>1, <4>1
      <3> QED  BY <3>1 DEF Inked
    <2> QED  BY <2>2
  <1>5. PlainInv' <=> PlainInv
    BY <1>1, <1>2, <1>3, <1>4 DEF PlainInv
  <1>6. ToScale' <=> ToScale
    BY <1>1, <1>2, <1>3 DEF ToScale
  <1>7. WindowInv' <=> WindowInv
    <2>1. 0 \in Int
      OBVIOUS
    <2>2. WindowRight' <=> WindowRight
      BY <2>1, SameWindow
    <2>3. Needed' = Needed
      BY SameNeeded
    <2> QED  BY <2>2, <2>3 DEF WindowInv
  <1>8. FillsWindow' <=> FillsWindow
    BY <1>6, <1>7 DEF FillsWindow
  <1> QED  BY <1>5, <1>8

(* A call that ends with an error: the page is not printed.                *)
LEMMA FailKeeps ==
  ASSUME StripesInv, pc \in {"decode", "fill"}, page' = page, c' = c, sent' = sent,
         out' = out, DecoderShape(dec'), ~ Printable, Fail
  PROVE  StripesInv'
  <1>1. /\ page \in Pages /\ c = OutputProperties(page) /\ HasHeader(page) /\ Known
        /\ Shapes /\ req.rc = "ok"
    BY CallFacts DEF InCall
  <1>2. req' = [req EXCEPT !.rc = "error"] /\ pc' = "return"
    BY DEF Fail
  <1>3. /\ req' = [f \in ReqFields |-> req'[f]] /\ req'.rc = "error"
        /\ \A f \in ReqFields \ {"rc"} : req'[f] \in Int
    BY <1>1, <1>2 DEF Shapes, ReqFields
  <1>4. DecoderShape(dec)'
    BY DEF DecoderShape
  <1>5. (sent \in 0 .. PageHeight)'
    BY <1>1, SamePage DEF Shapes
  <1>6. Shapes'
    BY <1>1, <1>2, <1>3, <1>4, <1>5 DEF Shapes, ReqFields, Colours, InCall
  <1>7. Stopped'
    BY <1>2, <1>3, SamePage DEF Stopped
  <1> QED  BY <1>1, <1>6, <1>7, GoOn

(* A pixel of the turned image, as the decoder makes it.                   *)
LEMMA SeenPixelIs ==
  ASSUME page \in Pages, c = OutputProperties(page), NEW y \in 0 .. c.srcH - 1,
         NEW x \in 0 .. TurnedW - 1
  PROVE  SeenPixel(y, x) \in Nat \X Nat
  <1>1. /\ c.rot \in {0, 90, 180, 270} /\ c.sampW \in Nat /\ c.sampH \in Nat
        /\ c.srcH = IF Sideways(c.rot) THEN c.sampW ELSE c.sampH
    BY LayoutIs, SizesAre, PropertiesAre
  <1>2. PICK line \in Nat, col \in Nat : TurnedPixel(y, x) = <<line, col>>
    <2>1. CASE c.rot = 0
      BY <1>1, <2>1 DEF TurnedPixel, TurnedW, Sideways
    <2>2. CASE c.rot = 90
      BY <1>1, <2>2 DEF TurnedPixel, TurnedW, Sideways
    <2>3. CASE c.rot = 180
      BY <1>1, <2>3 DEF TurnedPixel, TurnedW, Sideways
    <2>4. CASE c.rot = 270
      BY <1>1, <2>4 DEF TurnedPixel, TurnedW, Sideways
    <2> QED  BY <1>1, <2>1, <2>2, <2>3, <2>4
  <1>3. 8 * (line \div 8) \in Nat /\ 8 * (col \div 8) \in Nat
    OBVIOUS
  <1> QED  BY <1>2, <1>3 DEF SeenPixel, Seen

(* A row appended to those there are.                                      *)
LEMMA AppendIs ==
  ASSUME NEW s, NEW row, s = [i \in 1 .. Len(s) |-> s[i]], Len(s) \in Nat
  PROVE  LET t == Append(s, row)
         IN /\ t = [i \in 1 .. Len(t) |-> t[i]] /\ Len(t) = Len(s) + 1
            /\ \A i \in 1 .. Len(s) : t[i] = s[i]
            /\ t[Len(s) + 1] = row
  <1> DEFINE S == {s[i] : i \in 1 .. Len(s)} \cup {row}
             t == Append(s, row)
  <1>1. s \in Seq(S) /\ row \in S
    <2>1. s \in [1 .. Len(s) -> S]
      <3>1. \A i \in 1 .. Len(s) : s[i] \in S
        OBVIOUS
      <3> HIDE DEF S
      <3> QED  BY <3>1
    <2>2. row \in S
      OBVIOUS
    <2>3. PICK n \in Nat : n = Len(s)
      OBVIOUS
    <2> HIDE DEF S
    <2>4. s \in [1 .. n -> S]
      BY <2>1, <2>3
    <2>5. s \in Seq(S)
      BY <2>3, <2>4
    <2> QED  BY <2>2, <2>5
  <1> HIDE DEF S
  <1>2. t \in Seq(S) /\ Len(t) = Len(s) + 1
    BY <1>1
  <1>3. t = [i \in 1 .. Len(t) |-> t[i]]
    <2> HIDE DEF t
    <2> QED  BY <1>2
  <1>4. \A i \in 1 .. Len(s) : t[i] = s[i]
    BY <1>1
  <1>5. t[Len(s) + 1] = row
    BY <1>1
  <1> QED  BY <1>2, <1>3, <1>4, <1>5

(* A decoded row goes to its place in the buffer, or to the window.        *)
LEMMA StoreInBuffer ==
  ASSUME StripesInv, pc = "decode", pc' = "decode", page' = page, c' = c, cache' = cache,
         sent' = sent, c.scale = "none", req.count > 0, NEW row,
         \A x \in 0 .. c.outW - 1 : row[x] = SeenPixel(req.y, x + c.colOff),
         Store(row), dec' = dec \/ (DecoderShape(dec') /\ DecoderInv(dec'))
  PROVE  StripesInv'
  <1>1. /\ page \in Pages /\ c = OutputProperties(page) /\ req.rc = "ok" /\ Shapes /\ Begun
        /\ CallInv /\ sent \in Nat /\ sent < PageHeight /\ req.blank = WhiteRows
    BY CallFacts DEF InCall
  <1>2. PlainInv
    BY <1>1 DEF CallInv, FillsWindow, ToScale
  <1>3. /\ Asked /\ req.at = FirstAsked /\ req.got \in 0 .. ToMake
        /\ Accounts(req.got) /\ req.count = ToMake - req.got
        /\ req.y = FirstAsked + c.rowOff + req.got /\ Inked(req.got)
    BY <1>2 DEF PlainInv
  <1>4. /\ req.blank < StripeTotal /\ req.blank \in Nat /\ StripeTotal \in Nat
        /\ FirstAsked \in Nat /\ ToMake \in Nat
        /\ ToMake <= StripeTotal - req.blank /\ FirstAsked + ToMake <= AreaHeight
        /\ AreaHeight \in Nat /\ c.rowOff \in Nat /\ c.colOff \in Nat
        /\ c.rowOff + AreaHeight <= c.srcH /\ c.srcH \in Nat
        /\ AreaWidth \in Nat \ {0} /\ AreaWidth = c.outW /\ c.colOff + c.outW <= TurnedW
        /\ TurnedW \in Nat
        /\ PadLeft \in Nat /\ PadRight \in Nat /\ PadTop \in Nat
        /\ PageWidth = PadLeft + AreaWidth + PadRight /\ PageWidth \in Nat \ {0}
        /\ StripeTotal <= StripHeight /\ StripHeight <= c.outRows /\ c.outRows \in Nat
        /\ StripHeight \in Nat
    <2>1. req.blank < StripeTotal
      BY <1>3 DEF Asked
    <2>2. /\ StripeTotal \in 1 .. StripHeight /\ StripHeight \in Nat \ {0}
          /\ req.blank \in 0 .. StripeTotal /\ FirstAsked \in 0 .. AreaHeight - 1
          /\ ToMake \in 1 .. StripeTotal - req.blank /\ FirstAsked + ToMake <= AreaHeight
          /\ PageWidth \in Nat \ {0}
      BY <1>1, <2>1, CallIs
    <2>3. /\ AreaHeight \in Nat /\ c.rowOff \in Nat /\ c.colOff \in Nat
          /\ c.rowOff + AreaHeight <= c.srcH /\ c.srcH \in Nat
          /\ AreaWidth \in Nat \ {0} /\ AreaWidth = c.outW /\ c.colOff + c.outW <= TurnedW
          /\ TurnedW \in Nat
          /\ PadLeft \in Nat /\ PadRight \in Nat /\ PadTop \in Nat
          /\ PageWidth = PadLeft + AreaWidth + PadRight
          /\ StripHeight <= c.outRows /\ c.outRows \in Nat
      BY <1>1, LayoutIs, SizesAre, RoomIs
    <2> QED  BY <2>1, <2>2, <2>3
  <1>5. /\ req.height = req.blank + req.got /\ req.start = sent + req.height
        /\ req.rows = StripeTotal - req.height /\ req.got \in Nat /\ req.got < ToMake
    BY <1>3, <1>4 DEF Accounts
  <1>6. PICK b \in Nat, pw \in Nat, left \in Nat, aw \in Nat, got \in Nat, at \in Int :
          /\ b = req.blank /\ pw = PageWidth /\ left = PadLeft /\ aw = AreaWidth
          /\ got = req.got /\ at = (b + got) * pw + left
    <2>1. PICK b \in Nat, pw \in Nat, left \in Nat, aw \in Nat, got \in Nat :
          /\ b = req.blank /\ pw = PageWidth /\ left = PadLeft /\ aw = AreaWidth
          /\ got = req.got
      BY <1>4, <1>5
    <2>2. PICK at \in Int : at = (b + got) * pw + left
      OBVIOUS
    <2> QED  BY <2>1, <2>2
  <1>7. /\ win' = win
        /\ out' = [i \in DOMAIN out |-> IF i >= at /\ i < at + aw THEN row[i - at] ELSE out[i]]
        /\ req' = [req EXCEPT !.count = @ - 1, !.y = @ + 1, !.got = @ + 1,
                              !.height = @ + 1, !.start = @ + 1, !.rows = @ - 1]
    <2>1. req.height * PageWidth + PadLeft = at /\ c.outW = aw
      BY <1>4, <1>5, <1>6
    <2> QED  BY <2>1 DEF Store
  <1>8. /\ req' = [start |-> req.start + 1, rows |-> req.rows - 1, height |-> req.height + 1,
                   blank |-> req.blank, at |-> req.at, count |-> req.count - 1,
                   y |-> req.y + 1, got |-> req.got + 1, scaled |-> req.scaled,
                   moved |-> req.moved, rc |-> "ok"]
        /\ {req.start, req.rows, req.height, req.blank, req.at, req.count, req.y, req.got,
            req.scaled, req.moved} \subseteq Int
    <2>1. /\ req = [start |-> req.start, rows |-> req.rows, height |-> req.height,
                    blank |-> req.blank, at |-> req.at, count |-> req.count, y |-> req.y,
                    got |-> req.got, scaled |-> req.scaled, moved |-> req.moved, rc |-> req.rc]
          /\ {req.start, req.rows, req.height, req.blank, req.at, req.count, req.y, req.got,
              req.scaled, req.moved} \subseteq Int
      BY ReqShape DEF InCall
    <2> QED  BY <1>1, <1>7, <2>1
  <1>9. DOMAIN out = 0 .. BufferSize - 1 /\ BufferSize \in Nat
    BY <1>1, CachedRows DEF Begun
  <1>10. /\ StripeTotal' = StripeTotal /\ FirstAsked' = FirstAsked /\ ToMake' = ToMake
         /\ TopCut' = TopCut /\ PageWidth' = PageWidth
    BY <1>8, SameCall, SamePage
  <1>11. left + aw <= pw
    BY <1>4, <1>6
  <1>12. ASSUME NEW j \in 0 .. got, NEW x \in 0 .. aw - 1
         PROVE  (b + j) * pw + (left + x) \in DOMAIN out
    <2>1. b + j \in Nat /\ left + x \in Nat /\ b + j < c.outRows /\ left + x < PageWidth
      BY <1>4, <1>5, <1>6, <1>11
    <2>2. (b + j) * PageWidth + (left + x) \in 0 .. BufferSize - 1
      BY <1>1, <2>1, RowInBuffer
    <2> QED  BY <1>6, <1>9, <2>2
  <1>13. ASSUME NEW x \in 0 .. aw - 1
         PROVE  /\ row[x] = Ink(b + got, x)
                /\ row[x] \in Nat \X Nat
    <2>1. x \in 0 .. c.outW - 1
      BY <1>4, <1>6
    <2>2. row[x] = SeenPixel(req.y, x + c.colOff)
      BY <2>1
    <2>3. FirstAsked = sent + req.blank - PadTop
      BY DEF FirstAsked
    <2>4. sent + (b + got) - PadTop + c.rowOff = req.y
      BY <1>1, <1>3, <1>4, <1>5, <1>6, <2>3
    <2>5. req.y \in 0 .. c.srcH - 1 /\ x + c.colOff \in 0 .. TurnedW - 1
      BY <1>3, <1>4, <1>5, <2>1
    <2>6. SeenPixel(req.y, x + c.colOff) \in Nat \X Nat
      BY <1>1, <2>5, SeenPixelIs
    <2>7. Ink(b + got, x) = SeenPixel(req.y, x + c.colOff)
      BY <2>4 DEF Ink
    <2> QED  BY <2>2, <2>6, <2>7
  <1>14. ASSUME NEW j \in 0 .. got, NEW x \in 0 .. aw - 1
         PROVE  out'[(b + j) * pw + (left + x)] = Ink(b + j, x)
    <2>1. PICK i \in DOMAIN out : i = (b + j) * pw + (left + x)
      BY <1>12
    <2>2. CASE j = got
      <3>1. i >= at /\ i < at + aw /\ i - at = x
        <4> DEFINE t == (b + got) * pw
        <4>1. t \in Int /\ i = t + (left + x) /\ at = t + left
          BY <1>6, <2>1, <2>2
        <4> HIDE DEF t
        <4> QED  BY <1>6, <4>1
      <3>2. out'[i] = row[x]
        BY <1>7, <3>1
      <3> QED  BY <1>13, <2>1, <2>2, <3>2
    <2>3. CASE j # got
      <3>1. PICK r \in Int, s \in Int : r = b + j /\ s = b + got /\ r # s
        BY <1>6, <2>3
      <3>2. LET to == s * pw + left
                p  == r * pw + (left + x)
            IN ~ (p >= to /\ p < to + aw)
        BY <1>6, <1>11, <3>1, OtherRow
      <3>3. out'[i] = out[i]
        <4>1. ~ (i >= at /\ i < at + aw)
          BY <1>6, <2>1, <3>1, <3>2
        <4> QED  BY <1>7, <4>1
      <3>4. InkedRow(r)
        <4>1. r \in req.blank .. req.blank + req.got - 1
          BY <1>6, <2>3, <3>1
        <4> QED  BY <1>3, <4>1 DEF Inked
      <3>5. out[i] = Ink(r, x)
        BY <1>6, <2>1, <3>1, <3>4 DEF InkedRow
      <3> QED  BY <2>1, <3>1, <3>3, <3>5
    <2> QED  BY <2>2, <2>3
  <1>15. PlainInv'
    <2>1. Asked'
      BY <1>3, <1>8, <1>10 DEF Asked
    <2>2. Accounts(req.got)'
      <3>1. /\ req'.height = req.blank + req.got + 1 /\ req'.blank = req.blank
            /\ req'.got = req.got + 1 /\ req'.start = sent + req.blank + req.got + 1
            /\ req'.rows = StripeTotal - (req.blank + req.got + 1)
        BY <1>1, <1>4, <1>5, <1>8
      <3> QED  BY <1>1, <1>4, <1>5, <1>10, <3>1 DEF Accounts
    <2>3. /\ req'.at = FirstAsked' /\ req'.got \in 0 .. ToMake' /\ req'.count = ToMake' - req'.got
          /\ req'.y = FirstAsked' + c'.rowOff + req'.got
      BY <1>3, <1>4, <1>5, <1>8, <1>10
    <2>4. Inked(req.got)'
      <3>1. ASSUME NEW r \in b .. b + got PROVE InkedRow(r)'
        <4>1. PICK j \in 0 .. got : r = b + j
          <5>1. r - b \in 0 .. got /\ r = b + (r - b)
            BY <1>6
          <5> QED  BY <5>1
        <4>2. req'.blank = req.blank
          BY <1>8
        <4>3. InkedRow(r)' <=> \A x \in 0 .. AreaWidth - 1 :
                                 out'[r * PageWidth + (PadLeft + x)] = Ink(r, x)
          BY <4>2, SameInk
        <4> QED  BY <1>6, <1>14, <4>1, <4>3
      <3>2. req'.blank = b /\ req'.got = got + 1
        BY <1>6, <1>8
      <3>3. b + (got + 1) - 1 = b + got
        BY <1>6
      <3> QED  BY <3>1, <3>2, <3>3 DEF Inked
    <2> QED  BY <2>1, <2>2, <2>3, <2>4 DEF PlainInv
  <1>16. CallInv'
    BY <1>15 DEF CallInv
  <1>17. /\ DOMAIN out' = DOMAIN out /\ out' = [i \in DOMAIN out |-> out'[i]]
         /\ \A i \in DOMAIN out : out'[i] \in Colours
    <2>1. ASSUME NEW i \in DOMAIN out PROVE out'[i] \in Colours
      <3>1. i \in Int /\ out[i] \in Colours
        BY <1>1, <1>9 DEF Shapes
      <3>2. CASE ~ (i >= at /\ i < at + aw)
        BY <1>7, <3>1, <3>2
      <3>3. CASE i >= at /\ i < at + aw
        <4>1. i - at \in 0 .. aw - 1
          BY <1>6, <3>1, <3>3
        <4>2. out'[i] = row[i - at]
          BY <1>7, <3>3
        <4>3. out'[i] \in Nat \X Nat
          BY <1>13, <4>1, <4>2
        <4> QED  BY <4>3 DEF Colours
      <3> QED  BY <3>2, <3>3
    <2> QED  BY <1>7, <2>1
  <1>18. \A r \in 0 .. req.blank - 1, x \in 0 .. PageWidth - 1 : out'[r * PageWidth + x] = Blank
    <2>1. \A r \in 0 .. req.blank - 1, x \in 0 .. PageWidth - 1 :
            r * PageWidth + x \in DOMAIN out
      <3>1. req.blank <= c.outRows
        BY <1>4
      <3> QED  BY <1>1, <1>4, <1>9, <3>1, WhiteIsInBuffer
    <2>2. \A r \in 0 .. req.blank - 1, x \in 0 .. PageWidth - 1 : out[r * PageWidth + x] = Blank
      BY <1>1 DEF Begun
    <2> SUFFICES ASSUME NEW r \in 0 .. b - 1, NEW x \in 0 .. pw - 1
                 PROVE  out'[r * pw + x] = Blank
      BY <1>6
    <2>3. r * pw + x < (b + got) * pw /\ (b + got) * pw \in Int
      <3>1. PICK s \in Int : s = b + got /\ r < s
        BY <1>6
      <3> QED  BY <1>6, <3>1, BeforeRow
    <2>4. PICK i \in DOMAIN out : i = r * pw + x
      BY <1>6, <2>1
    <2>5. out[i] = Blank
      BY <1>6, <2>2, <2>4
    <2>6. i < at /\ i \in Int
      <3> DEFINE t == (b + got) * pw
      <3>1. t \in Int /\ i < t /\ at = t + left /\ i \in Int
        BY <1>6, <1>9, <2>3, <2>4
      <3> HIDE DEF t
      <3> QED  BY <1>6, <3>1
    <2>7. out'[i] = out[i]
      BY <1>6, <1>7, <2>6
    <2> QED  BY <2>4, <2>5, <2>7
  <1>19. /\ req'.blank = req.blank /\ req'.rc = "ok" /\ req' = [f \in ReqFields |-> req'[f]]
         /\ \A f \in ReqFields \ {"rc"} : req'[f] \in Int
    BY <1>8 DEF ReqFields
  <1> QED  BY <1>16, <1>17, <1>18, <1>19, CallStep DEF InCall

(* A row of the image, as the caller gets it.                              *)
IsRow(row, y) == row = [x \in 0 .. c.outW - 1 |-> SeenPixel(y, x + c.colOff)]

(* A decoded row goes to the end of the window.                          *)
LEMMA StoreInWindow ==
  ASSUME StripesInv, pc = "decode", pc' = "decode", page' = page, c' = c, cache' = cache,
         sent' = sent, c.scale # "none", req.count > 0, NEW row,
         IsRow(row, req.y),
         Store(row), dec' = dec \/ (DecoderShape(dec') /\ DecoderInv(dec'))
  PROVE  StripesInv'
  <1>1. /\ page \in Pages /\ c = OutputProperties(page) /\ req.rc = "ok"
        /\ CallInv /\ sent \in Nat /\ sent < PageHeight /\ req.blank = WhiteRows
    BY CallFacts DEF InCall
  <1>2. FillsWindow
    BY <1>1 DEF CallInv, PlainInv
  <1>3. /\ ToScale /\ WindowRight /\ win.first = Needed.first /\ win.last = Needed.last
        /\ req.count = win.last - win.first + 1 - Len(win.rows)
        /\ req.y = win.first + Len(win.rows) /\ req.got \in Nat
        /\ win = [first |-> win.first, last |-> win.last, rows |-> win.rows]
        /\ win.rows = [i \in 1 .. Len(win.rows) |-> win.rows[i]] /\ Len(win.rows) \in Nat
        /\ win.first \in Nat /\ win.last \in Nat
    BY <1>2 DEF FillsWindow, WindowInv, WindowRight
  <1>4. c.colOff = 0 /\ c.outW \in Nat
    BY <1>1, LayoutIs, SizesAre
  <1>5. /\ out' = out
        /\ win' = [win EXCEPT !.rows = Append(@, row)]
        /\ req' = [req EXCEPT !.count = @ - 1, !.y = @ + 1, !.got = @ + 1]
    BY DEF Store
  <1>6. PICK n \in Nat, first \in Nat, last \in Nat :
          n = Len(win.rows) /\ first = win.first /\ last = win.last
    BY <1>3
  <1>17. PICK rows : rows = Append(win.rows, row)
    OBVIOUS
  <1>18. /\ req.count = last - first + 1 - n /\ req.y = first + n /\ req.got \in Nat
         /\ req.count \in Int /\ req.count > 0
    BY <1>3, <1>6
  <1>19. Asked /\ Accounts(0) /\ req.at = FirstAsked + TopCut /\ req.scaled = ToMake
    BY <1>3 DEF ToScale
  <1>7. win' = [first |-> first, last |-> last, rows |-> rows]
    BY <1>3, <1>5, <1>6, <1>17
  <1>8. /\ rows = [i \in 1 .. Len(rows) |-> rows[i]] /\ Len(rows) = n + 1
        /\ \A i \in 1 .. n : rows[i] = win.rows[i]
        /\ rows[n + 1] = row
    BY <1>3, <1>6, <1>17, AppendIs
  <1>9. /\ req' = [start |-> req.start, rows |-> req.rows, height |-> req.height,
                   blank |-> req.blank, at |-> req.at, count |-> req.count - 1,
                   y |-> req.y + 1, got |-> req.got + 1, scaled |-> req.scaled,
                   moved |-> req.moved, rc |-> "ok"]
        /\ {req.start, req.rows, req.height, req.blank, req.at, req.count, req.y, req.got,
            req.scaled, req.moved} \subseteq Int
    <2>1. /\ req = [start |-> req.start, rows |-> req.rows, height |-> req.height,
                    blank |-> req.blank, at |-> req.at, count |-> req.count, y |-> req.y,
                    got |-> req.got, scaled |-> req.scaled, moved |-> req.moved, rc |-> req.rc]
          /\ {req.start, req.rows, req.height, req.blank, req.at, req.count, req.y, req.got,
              req.scaled, req.moved} \subseteq Int
      BY ReqShape DEF InCall
    <2> QED  BY <1>1, <1>5, <2>1
  <1>10. /\ StripeTotal' = StripeTotal /\ FirstAsked' = FirstAsked /\ ToMake' = ToMake
         /\ TopCut' = TopCut
    BY <1>9, SameCall, SamePage
  <1>11. ToScale'
    <2>1. Asked'
      BY <1>9, <1>10, <1>19 DEF Asked
    <2>2. Accounts(0)'
      <3>1. Accounts(0)
        BY <1>19
      <3>2. /\ req'.height = req.height /\ req'.blank = req.blank /\ req'.start = req.start
            /\ req'.rows = req.rows
        BY <1>9
      <3> QED  BY <1>10, <3>1, <3>2 DEF Accounts
    <2>3. req'.at = req.at /\ req'.scaled = req.scaled
      BY <1>9
    <2> QED  BY <1>10, <1>19, <2>1, <2>2, <2>3 DEF ToScale
  <1>12. ASSUME NEW i \in 1 .. n + 1, NEW y \in Nat, y = first + i - 1
         PROVE  rows[i] = [x \in 0 .. c.outW - 1 |-> SeenPixel(y, x)]
    <2>1. CASE i = n + 1
      <3>1. y = req.y
        BY <1>18, <1>12, <2>1
      <3>2. \A x \in 0 .. c.outW - 1 : x + c.colOff = x
        BY <1>4
      <3>3. row = [x \in 0 .. c.outW - 1 |-> SeenPixel(y, x)]
        BY <3>1, <3>2 DEF IsRow
      <3> QED  BY <1>8, <2>1, <3>3
    <2>2. CASE i # n + 1
      <3>1. i \in 1 .. Len(win.rows) /\ y = win.first + i - 1
        BY <1>6, <1>12, <2>2
      <3>2. win.rows[i] = [x \in 0 .. c.outW - 1 |-> SeenPixel(y, x)]
        BY <1>3, <3>1 DEF WindowRight
      <3> QED  BY <1>6, <1>8, <3>1, <3>2
    <2> QED  BY <2>1, <2>2
  <1>13. WindowInv'
    <2>1. win'.first = first /\ win'.last = last /\ win'.rows = rows
      BY <1>7
    <2>2. Needed' = Needed
      <3>1. req'.at = req.at /\ req'.scaled = req.scaled
        BY <1>9
      <3> QED  BY <3>1, SameNeeded
    <2>3. WindowRight'
      <3>1. ASSUME NEW i \in 1 .. Len(win'.rows), NEW y \in Nat, y = win'.first + i - 1
            PROVE  win'.rows[i] = [x \in 0 .. c'.outW - 1 |-> SeenPixel(y, x)']
        <4>1. rows[i] = [x \in 0 .. c.outW - 1 |-> SeenPixel(y, x)]
          BY <1>8, <1>12, <2>1, <3>1
        <4>2. \A x \in 0 .. c.outW - 1 : SeenPixel(y, x)' = SeenPixel(y, x)
          BY SamePage
        <4> QED  BY <2>1, <4>1, <4>2
      <3>2. win' = [first |-> win'.first, last |-> win'.last, rows |-> win'.rows]
        BY <1>7
      <3>3. /\ win'.rows = [i \in 1 .. Len(win'.rows) |-> win'.rows[i]]
            /\ Len(win'.rows) \in Nat
        BY <1>6, <1>8, <2>1
      <3>4. win'.first \in Nat /\ win'.last \in Nat
        BY <1>6, <2>1
      <3> QED  BY <3>1, <3>2, <3>3, <3>4 DEF WindowRight
    <2> QED  BY <1>3, <1>6, <2>1, <2>2, <2>3 DEF WindowInv
  <1>14. FillsWindow'
    <2>1. win'.first = first /\ win'.last = last /\ Len(win'.rows) = n + 1
      BY <1>7, <1>8
    <2>2. req'.count = req.count - 1 /\ req'.y = req.y + 1 /\ req'.got = req.got + 1
      BY <1>9
    <2>3. /\ req'.count = win'.last - win'.first + 1 - Len(win'.rows) /\ req'.count >= 0
          /\ req'.y = win'.first + Len(win'.rows) /\ req'.got \in Nat /\ req'.got > 0
      <3>1. n \in Nat /\ first \in Nat /\ last \in Nat
        BY <1>6
      <3>2. req.count - 1 = last - first + 1 - (n + 1) /\ req.count - 1 >= 0
        BY <1>18, <3>1
      <3>3. req.y + 1 = first + (n + 1)
        BY <1>18, <3>1
      <3>4. req.got + 1 \in Nat /\ req.got + 1 > 0
        BY <1>18
      <3> QED  BY <2>1, <2>2, <3>2, <3>3, <3>4
    <2> QED  BY <1>11, <1>13, <2>3 DEF FillsWindow
  <1>15. CallInv'
    BY <1>14 DEF CallInv
  <1>16. /\ req'.blank = req.blank /\ req'.rc = "ok" /\ req' = [f \in ReqFields |-> req'[f]]
         /\ \A f \in ReqFields \ {"rc"} : req'[f] \in Int
    BY <1>9 DEF ReqFields
  <1> QED  BY <1>5, <1>15, <1>16, CallStep DEF InCall

(* A decoded row, with or without scaling.                               *)
LEMMA StoreKeeps ==
  ASSUME StripesInv, pc = "decode", pc' = "decode", page' = page, c' = c, cache' = cache,
         sent' = sent, req.count > 0, NEW row,
         IsRow(row, req.y),
         Store(row), dec' = dec \/ (DecoderShape(dec') /\ DecoderInv(dec'))
  PROVE  StripesInv'
  <1>1. CASE c.scale = "none"
    <2>1. \A x \in 0 .. c.outW - 1 : row[x] = SeenPixel(req.y, x + c.colOff)
      BY DEF IsRow
    <2> QED  BY <1>1, <2>1, StoreInBuffer
  <1>2. CASE c.scale # "none"
    BY <1>2, StoreInWindow
  <1> QED  BY <1>1, <1>2

(* A row is decoded for a row of the image that is in it.                  *)
LEMMA RowAsked ==
  ASSUME StripesInv, pc = "decode"
  PROVE  /\ req.y \in Nat /\ c.colOff \in Nat /\ c.outW \in Nat /\ c.colOff + c.outW <= TurnedW
         /\ c.rot \in {0, 90, 180, 270} /\ c.sampW \in Nat /\ c.sampH \in Nat /\ TurnedW \in Nat
         /\ PlainInv \/ FillsWindow
         /\ page \in Pages /\ c = OutputProperties(page) /\ HasHeader(page)
         /\ Shapes /\ DecoderInv(dec) /\ CacheInv /\ Begun
  <1>1. /\ page \in Pages /\ c = OutputProperties(page) /\ CallInv
        /\ sent \in Nat /\ sent < PageHeight /\ req.blank = WhiteRows
        /\ HasHeader(page) /\ Shapes /\ DecoderInv(dec) /\ CacheInv /\ Begun
    BY CallFacts DEF InCall
  <1>2. PlainInv \/ FillsWindow
    BY <1>1 DEF CallInv
  <1>3. /\ c.rowOff \in Nat /\ c.colOff \in Nat /\ c.outW \in Nat /\ TurnedW \in Nat
        /\ c.rot \in {0, 90, 180, 270} /\ c.sampW \in Nat /\ c.sampH \in Nat
        /\ c.colOff + c.outW <= TurnedW
    <2>1. /\ c.rowOff \in Nat /\ c.colOff \in Nat /\ c.outW \in Nat /\ TurnedW \in Nat
          /\ c.rot \in {0, 90, 180, 270} /\ c.sampW \in Nat /\ c.sampH \in Nat
          /\ c.scale = "none" => c.colOff + c.outW <= TurnedW
          /\ c.scale # "none" => c.colOff = 0 /\ c.outW = TurnedW
      BY <1>1, LayoutIs, SizesAre
    <2> QED  BY <2>1
  <1>4. req.y \in Nat
    <2>1. CASE PlainInv
      <3>1. req.blank < StripeTotal /\ req.got \in 0 .. ToMake
            /\ req.y = FirstAsked + c.rowOff + req.got
        BY <2>1 DEF PlainInv, Asked
      <3>2. FirstAsked \in 0 .. AreaHeight - 1 /\ ToMake \in 1 .. StripeTotal - req.blank
        BY <1>1, <3>1, CallIs
      <3> QED  BY <1>3, <3>1, <3>2
    <2>2. CASE FillsWindow
      BY <2>2 DEF FillsWindow, WindowInv, WindowRight
    <2> QED  BY <1>2, <2>1, <2>2
  <1> QED  BY <1>1, <1>2, <1>3, <1>4

(* A row the decoder returns, and one of the cache, is the row it is for.  *)
LEMMA UprightRow ==
  ASSUME c.rot \in {0, 180}, c.sampW \in Nat, c.sampH \in Nat, c.colOff \in Nat, c.outW \in Nat,
         NEW y \in Nat, NEW k \in Int, k = IF c.rot = 0 THEN y ELSE c.sampH - y - 1
  PROVE  IsRow(TurnedRow(k, c.outW), y)
  <1>1. ASSUME NEW x \in 0 .. c.outW - 1
        PROVE  TurnedPixel(y, x + c.colOff) =
                 IF c.rot = 0 THEN <<k, x + c.colOff>> ELSE <<k, c.sampW - x - c.colOff - 1>>
    <2>1. CASE c.rot = 0
      BY <2>1 DEF TurnedPixel
    <2>2. CASE c.rot = 180
      <3>1. c.sampH - 1 - y = k /\ c.sampW - 1 - (x + c.colOff) = c.sampW - x - c.colOff - 1
        BY <2>2
      <3> QED  BY <2>2, <3>1 DEF TurnedPixel
    <2> QED  BY <2>1, <2>2
  <1> DEFINE px(x) == SeenPixel(y, x + c.colOff)
             at(x) == Seen(IF c.rot = 0 THEN <<k, x + c.colOff>>
                           ELSE <<k, c.sampW - x - c.colOff - 1>>)
  <1>2. \A x \in 0 .. c.outW - 1 : px(x) = at(x)
    BY <1>1 DEF SeenPixel
  <1>3. TurnedRow(k, c.outW) = [x \in 0 .. c.outW - 1 |-> at(x)]
    BY DEF TurnedRow
  <1> HIDE DEF px, at
  <1>4. TurnedRow(k, c.outW) = [x \in 0 .. c.outW - 1 |-> px(x)]
    BY <1>2, <1>3
  <1> QED  BY <1>4 DEF IsRow, px

(* A row of the cache is the row it is for: a column of the file.        *)
LEMMA CachedRow ==
  ASSUME c.rot \in {90, 270}, c.sampW \in Nat, c.sampH \in Nat, c.colOff \in Nat, c.outW \in Nat,
         c.colOff + c.outW <= c.sampH, NEW y \in Nat,
         \A i \in 1 .. c.sampH : cache.lines[i] = i - 1
  PROVE  IsRow(TurnedRow(y, c.outW), y)
  <1>1. ASSUME NEW x \in 0 .. c.outW - 1
        PROVE  TurnedPixel(y, x + c.colOff) =
                 IF c.rot = 90 THEN <<cache.lines[c.sampH - (x + c.colOff)], y>>
                 ELSE <<cache.lines[x + c.colOff + 1], c.sampW - y - 1>>
    <2>1. CASE c.rot = 90
      <3>1. c.sampH - (x + c.colOff) \in 1 .. c.sampH
        OBVIOUS
      <3>2. cache.lines[c.sampH - (x + c.colOff)] = c.sampH - 1 - (x + c.colOff)
        BY <3>1
      <3> QED  BY <2>1, <3>2 DEF TurnedPixel
    <2>2. CASE c.rot = 270
      <3>1. x + c.colOff + 1 \in 1 .. c.sampH
        OBVIOUS
      <3>2. cache.lines[x + c.colOff + 1] = x + c.colOff /\ c.sampW - 1 - y = c.sampW - y - 1
        BY <3>1
      <3> QED  BY <2>2, <3>2 DEF TurnedPixel
    <2> QED  BY <2>1, <2>2
  <1> DEFINE px(x) == SeenPixel(y, x + c.colOff)
             at(x) == Seen(IF c.rot = 90 THEN <<cache.lines[c.sampH - (x + c.colOff)], y>>
                           ELSE <<cache.lines[x + c.colOff + 1], c.sampW - y - 1>>)
  <1>2. \A x \in 0 .. c.outW - 1 : px(x) = at(x)
    BY <1>1 DEF SeenPixel
  <1>3. TurnedRow(y, c.outW) = [x \in 0 .. c.outW - 1 |-> at(x)]
    BY DEF TurnedRow
  <1> HIDE DEF px, at
  <1>4. TurnedRow(y, c.outW) = [x \in 0 .. c.outW - 1 |-> px(x)]
    BY <1>2, <1>3
  <1> QED  BY <1>4 DEF IsRow, px

(* A row of an upright image.                                            *)
LEMMA UprightKeeps ==
  ASSUME StripesInv, Upright
  PROVE  StripesInv'
  <1>1. /\ pc = "decode" /\ ~ Sideways(c.rot) /\ req.count > 0 /\ req.y < c.sampH
        /\ page' = page /\ c' = c /\ cache' = cache /\ sent' = sent
        /\ dec' = Decoded(dec, IF c.rot = 0 THEN req.y ELSE c.sampH - req.y - 1)
    BY DEF Upright
  <1>a. /\ dec'.ok => Store(TurnedRow(dec'.line, c.outW)) /\ pc' = pc
        /\ ~ dec'.ok => Fail /\ win' = win /\ out' = out
    BY DEF Upright
  <1>2. /\ req.y \in Nat /\ c.colOff \in Nat /\ c.outW \in Nat
        /\ c.rot \in {0, 90, 180, 270} /\ c.sampW \in Nat /\ c.sampH \in Nat
        /\ page \in Pages /\ c = OutputProperties(page) /\ HasHeader(page)
        /\ Shapes /\ DecoderInv(dec)
    BY <1>1, RowAsked
  <1>3. c.rot \in {0, 180}
    BY <1>1, <1>2 DEF Sideways
  <1>4. PICK k \in 0 .. c.sampH - 1 : k = IF c.rot = 0 THEN req.y ELSE c.sampH - req.y - 1
    BY <1>1, <1>2
  <1>5. DecoderShape(dec)
    BY <1>2 DEF Shapes
  <1>6. /\ DecoderShape(dec')
        /\ dec'.ok => dec'.line = k /\ DecoderInv(dec')
        /\ ~ dec'.ok => page.bad # -1 \/ LosesLastSwath
    BY <1>1, <1>2, <1>4, <1>5, DecodedIs
  <1>7. CASE dec'.ok
    <2>1. dec'.line = k /\ DecoderInv(dec') /\ pc' = "decode"
      BY <1>1, <1>a, <1>6, <1>7
    <2>2. PICK row : row = TurnedRow(k, c.outW)
      OBVIOUS
    <2>3. IsRow(row, req.y)
      BY <1>2, <1>3, <1>4, <2>2, UprightRow
    <2>4. Store(row)
      <3>1. Store(TurnedRow(dec'.line, c.outW))
        BY <1>a, <1>7
      <3>2. row = TurnedRow(dec'.line, c.outW)
        BY <2>1, <2>2
      <3> QED  BY <3>1, <3>2 DEF Store
    <2> QED  BY <1>1, <1>6, <2>1, <2>3, <2>4, StoreKeeps
  <1>8. CASE ~ dec'.ok
    <2>1. ~ Printable
      BY <1>6, <1>8 DEF Printable
    <2> QED  BY <1>1, <1>a, <1>6, <1>8, <2>1, FailKeeps
  <1> QED  BY <1>7, <1>8

(* A row of a sideways image.                                            *)
LEMMA FromCacheKeeps ==
  ASSUME StripesInv, FromCache
  PROVE  StripesInv'
  <1>1. /\ pc = "decode" /\ pc' = "decode" /\ Sideways(c.rot) /\ req.count > 0
        /\ page' = page /\ c' = c /\ cache' = cache /\ sent' = sent /\ dec' = dec
        /\ cache.start # -1
    BY DEF FromCache, InCache
  <1>2. /\ req.y \in Nat /\ c.colOff \in Nat /\ c.outW \in Nat /\ c.colOff + c.outW <= TurnedW
        /\ c.rot \in {0, 90, 180, 270} /\ c.sampW \in Nat /\ c.sampH \in Nat
        /\ CacheInv
    BY <1>1, RowAsked
  <1>3. c.rot \in {90, 270} /\ TurnedW = c.sampH
    BY <1>1, <1>2 DEF Sideways, TurnedW
  <1>4. \A i \in 1 .. c.sampH : cache.lines[i] = i - 1
    <2>1. Len(cache.lines) = c.sampH
      BY <1>1, <1>2 DEF CacheInv
    <2> QED  BY <1>2, <2>1 DEF CacheInv
  <1>5. PICK row : row = TurnedRow(req.y, c.outW)
    OBVIOUS
  <1>6. IsRow(row, req.y)
    BY <1>2, <1>3, <1>4, <1>5, CachedRow
  <1>7. Store(row)
    BY <1>5 DEF FromCache, Store
  <1> QED  BY <1>1, <1>6, <1>7, StoreKeeps

(***************************************************************************)
(* The cache of rotated rows is filled.                                    *)
(***************************************************************************)

(* A step that only decodes for the cache.                               *)
LEMMA StepsOn ==
  ASSUME StripesInv, pc \in {"decode", "fill"}, pc' \in {"decode", "fill"},
         page' = page, c' = c, win' = win, out' = out, sent' = sent, req' = req,
         req.count > 0,
         dec' = dec \/ (DecoderShape(dec') /\ DecoderInv(dec')), CacheInv'
  PROVE  StripesInv'
  <1>1. /\ req.rc = "ok" /\ CallInv /\ Shapes
    BY CallFacts DEF InCall
  <1>2. PlainInv \/ FillsWindow
    BY <1>1 DEF CallInv
  <1>3. PlainInv' \/ FillsWindow'
    BY <1>2, StillDecoding
  <1>4. CallInv'
    BY <1>3 DEF CallInv
  <1>5. /\ req'.blank = req.blank /\ req'.rc = "ok" /\ req' = [f \in ReqFields |-> req'[f]]
        /\ \A f \in ReqFields \ {"rc"} : req'[f] \in Int
    BY <1>1 DEF Shapes
  <1> QED  BY <1>4, <1>5, CallStep DEF InCall

(* The cache is emptied for other rows.                                  *)
LEMMA RefillKeeps ==
  ASSUME StripesInv, Refill
  PROVE  StripesInv'
  <1>1. /\ pc = "decode" /\ Sideways(c.rot) /\ req.count > 0
        /\ page' = page /\ c' = c /\ win' = win /\ out' = out /\ sent' = sent
        /\ dec' = IF cache.start = -1 THEN Decoded(dec, 0) ELSE dec
    BY DEF Refill
  <1>2. /\ page \in Pages /\ c = OutputProperties(page) /\ DecoderShape(dec) /\ DecoderInv(dec)
    BY <1>1, RowAsked DEF Shapes
  <1>3. c.sampH \in Nat \ {0} /\ 0 \in 0 .. c.sampH - 1
    BY <1>2, SizesAre
  <1>4. ASSUME cache.start = -1
        PROVE  /\ DecoderShape(dec') /\ (dec'.ok => DecoderInv(dec'))
               /\ ~ dec'.ok => page.bad # -1 \/ LosesLastSwath
    BY <1>1, <1>2, <1>3, <1>4, DecodedIs
  <1>5. CASE cache.start = -1 /\ ~ dec'.ok
    <2>1. Fail
      BY <1>5 DEF Refill
    <2>2. ~ Printable
      BY <1>4, <1>5 DEF Printable
    <2> QED  BY <1>1, <1>4, <1>5, <2>1, <2>2, FailKeeps
  <1>6. CASE ~ (cache.start = -1 /\ ~ dec'.ok)
    <2>1. /\ pc' = "fill" /\ req' = req
          /\ cache' = [start |-> (req.y \div RowsToCache) * RowsToCache, lines |-> <<>>]
      BY <1>6 DEF Refill
    <2>2. cache'.lines = <<>> /\ cache' = [start |-> cache'.start, lines |-> cache'.lines]
      BY <2>1
    <2>3. CacheInv'
      BY <1>1, <1>3, <2>1, <2>2 DEF CacheInv, Sideways
    <2>4. dec' = dec \/ (DecoderShape(dec') /\ DecoderInv(dec'))
      BY <1>1, <1>4, <1>6
    <2> QED  BY <1>1, <2>1, <2>3, <2>4, StepsOn
  <1> QED  BY <1>5, <1>6

(* A row of the file goes to the cache.                                  *)
LEMMA FillKeeps ==
  ASSUME StripesInv, Fill
  PROVE  StripesInv'
  <1>1. /\ pc = "fill" /\ Len(cache.lines) < c.sampH
        /\ page' = page /\ c' = c /\ win' = win /\ out' = out /\ sent' = sent
        /\ dec' = Decoded(dec, Len(cache.lines))
    BY DEF Fill
  <1>2. /\ page \in Pages /\ c = OutputProperties(page) /\ DecoderShape(dec) /\ DecoderInv(dec)
        /\ CacheInv /\ CallInv /\ req.count > 0
    BY <1>1, CallFacts DEF Shapes, InCall, CallInv
  <1>3. /\ c.sampH \in Nat /\ Sideways(c.rot) /\ cache.lines \in Seq(Nat)
        /\ \A i \in 1 .. Len(cache.lines) : cache.lines[i] = i - 1
        /\ cache = [start |-> cache.start, lines |-> cache.lines]
    BY <1>1, <1>2, SizesAre DEF CacheInv
  <1>4. PICK n \in 0 .. c.sampH - 1 : n = Len(cache.lines)
    BY <1>1, <1>3
  <1>5. /\ DecoderShape(dec') /\ (dec'.ok => dec'.line = n /\ DecoderInv(dec'))
        /\ ~ dec'.ok => page.bad # -1 \/ LosesLastSwath
    BY <1>1, <1>2, <1>4, DecodedIs
  <1>6. CASE dec'.ok
    <2>1. /\ cache' = [cache EXCEPT !.lines = Append(@, dec'.line)] /\ req' = req
          /\ pc' = IF Len(cache.lines) + 1 = c.sampH THEN "decode" ELSE "fill"
      BY <1>6 DEF Fill
    <2>2. PICK lines : lines = Append(cache.lines, n)
      OBVIOUS
    <2>3. cache' = [start |-> cache.start, lines |-> lines]
      BY <1>3, <1>5, <1>6, <2>1, <2>2
    <2>4. /\ lines \in Seq(Nat) /\ Len(lines) = n + 1 /\ n \in Nat
          /\ \A i \in 1 .. n + 1 : lines[i] = i - 1
      BY <1>3, <1>4, <2>2
    <2>5. cache'.lines = lines /\ cache' = [start |-> cache'.start, lines |-> cache'.lines]
      BY <2>3
    <2>6. pc' = IF n + 1 = c.sampH THEN "decode" ELSE "fill"
      BY <1>4, <2>1
    <2>7. CacheInv'
      <3>1. c' = c /\ n + 1 <= c.sampH
        BY <1>1, <1>3, <1>4
      <3>2. IF pc' = "fill" THEN Sideways(c.rot)' /\ Len(lines) < c'.sampH
                            ELSE Len(lines) = c'.sampH
        BY <1>3, <2>4, <2>6, <3>1 DEF Sideways
      <3> QED  BY <2>4, <2>5, <3>2 DEF CacheInv
    <2> QED  BY <1>1, <1>2, <1>5, <1>6, <2>1, <2>6, <2>7, StepsOn
  <1>7. CASE ~ dec'.ok
    <2>1. Fail
      BY <1>7 DEF Fill
    <2>2. ~ Printable
      BY <1>5, <1>7 DEF Printable
    <2> QED  BY <1>1, <1>5, <2>1, <2>2, FailKeeps
  <1> QED  BY <1>6, <1>7

(***************************************************************************)
(* The page before its first stripe.                                       *)
(***************************************************************************)

(* The output properties are those of the page.                            *)
OfPage == page \in Pages /\ c = OutputProperties(page)

Layout == /\ PageHeight \in Nat /\ PageHeight > 0 /\ PadTop \in Nat /\ TopCut \in Nat
          /\ c.scale # "unknown"

(* A page with its output properties has rows, and a place for the       *)
(* image.                                                                *)
LEMMA LayoutKnown == OfPage => Layout
  <1> SUFFICES ASSUME OfPage PROVE Layout
    OBVIOUS
  <1>1. /\ PadTop \in Nat /\ PadBottom \in Nat /\ AreaHeight \in Nat \ {0}
        /\ PageHeight = PadTop + AreaHeight + PadBottom
    BY LayoutIs DEF OfPage
  <1>2. c.scaledH \in Nat /\ c.printH \in Nat
    BY SizesAre DEF OfPage
  <1>3. TopCut \in Nat
    BY <1>2 DEF TopCut, Greatest
  <1>4. c.scale # "unknown"
    BY PropertiesAre DEF OfPage
  <1> QED  BY <1>1, <1>3, <1>4 DEF Layout

(* So it is when they have just become known.                            *)
LEMMA LayoutNext == OfPage' => Layout'
  BY LayoutKnown, PTL

(* The header of the file is read.                                       *)
LEMMA GetInfoKeeps ==
  ASSUME StripesInv, GetInfo
  PROVE  StripesInv'
  <1>1. /\ pc = "setup" /\ page' = page /\ c' = c /\ dec' = dec /\ cache' = cache /\ win' = win
        /\ out' = out /\ sent' = sent
        /\ req' = [req EXCEPT !.rc = IF HasHeader(page) THEN "ok" ELSE "error"]
        /\ pc' = IF HasHeader(page) THEN "info" ELSE "done"
    BY DEF GetInfo
  <1>2. page \in Pages /\ Fresh /\ ~ Known
    BY <1>1 DEF StripesInv, Fresh, Known, Shapes, InCall
  <1>3. HasHeader(page)' <=> HasHeader(page)
    BY <1>1 DEF HasHeader, Decoder
  <1>4. CASE HasHeader(page)
    <2>1. req' = NoRequest
      BY <1>1, <1>2, <1>4 DEF Fresh, NoRequest
    <2>2. Fresh'
      BY <1>1, <1>2, <2>1 DEF Fresh
    <2> QED  BY <1>1, <1>2, <1>3, <1>4, <2>2 DEF StripesInv
  <1>5. CASE ~ HasHeader(page)
    <2>1. req'.rc = "error"
      BY <1>1, <1>2, <1>5 DEF Fresh, NoRequest
    <2> QED  BY <1>1, <1>2, <1>3, <1>5, <2>1 DEF StripesInv, Fresh
  <1> QED  BY <1>4, <1>5

(* The output properties are worked out: nothing is sent, cached or kept *)
(* yet.                                                                  *)
LEMMA SetOutputPropertiesKeeps ==
  ASSUME StripesInv, SetOutputProperties
  PROVE  StripesInv'
  <1>1. /\ pc = "info" /\ pc' = "page" /\ page' = page /\ c' = OutputProperties(page)
        /\ dec' = dec /\ cache' = cache /\ win' = win /\ req' = req
        /\ out' = out /\ sent' = sent
    BY DEF SetOutputProperties
  <1>2. page \in Pages /\ Fresh /\ HasHeader(page)
    BY <1>1 DEF StripesInv, Shapes, InCall
  <1>3. /\ HasHeader(page)' /\ page' \in Pages
    BY <1>1, <1>2 DEF HasHeader, Decoder
  <1>4. c' = OutputProperties(page)' /\ OfPage'
    <2>1. OutputProperties(page)' = OutputProperties(page')
      OBVIOUS
    <2> QED  BY <1>1, <1>3, <2>1 DEF OfPage
  <1>5. /\ PageHeight' \in Nat /\ PageHeight' > 0 /\ PadTop' \in Nat /\ TopCut' \in Nat
        /\ c'.scale # "unknown"
    BY <1>4, LayoutNext DEF Layout
  <1>6. /\ dec' = [swath |-> -1, base |-> 0, pos |-> 0, ok |-> TRUE, line |-> 0]
        /\ cache' = [start |-> -1, lines |-> <<>>]
        /\ win' = [first |-> -1, last |-> -1, rows |-> <<>>]
        /\ req' = NoRequest /\ out' = <<>> /\ sent' = 0
    BY <1>1, <1>2 DEF Fresh
  <1>7. Shapes'
    <2>1. /\ req' = [f \in ReqFields |-> req'[f]]
          /\ \A f \in ReqFields \ {"rc"} : req'[f] \in Int
      BY <1>6 DEF NoRequest, ReqFields
    <2>2. DecoderShape(dec)'
      BY <1>6 DEF DecoderShape
    <2>3. out' = [i \in DOMAIN out' |-> out'[i]] /\ DOMAIN out' = {}
      BY <1>6
    <2>4. (sent \in 0 .. PageHeight)'
      BY <1>5, <1>6
    <2> QED  BY <1>1, <2>1, <2>2, <2>3, <2>4 DEF Shapes
  <1>8. DecoderInv(dec)'
    <2>1. dec'.swath = -1 /\ dec'.pos = 0
      BY <1>6
    <2> QED  BY <2>1 DEF DecoderInv
  <1>9. CacheInv'
    <2>1. /\ cache' = [start |-> cache'.start, lines |-> cache'.lines]
          /\ cache'.lines = <<>> /\ cache'.start = -1
      BY <1>6
    <2> QED  BY <1>1, <2>1 DEF CacheInv
  <1>10. KeptForNext'
    <2>1. win'.first = -1 /\ win'.last = -1
      BY <1>6
    <2>2. PICK b \in Int : b = sent' - PadTop' + TopCut'
      <3>1. sent' = 0 /\ PadTop' \in Int /\ TopCut' \in Int
        BY <1>5, <1>6
      <3>2. sent' - PadTop' + TopCut' \in Int
        BY <3>1
      <3> QED  BY <3>2, Zenon
    <2>3. (WindowBefore(b))'
      BY <2>1 DEF WindowBefore
    <2> QED  BY <2>2, <2>3 DEF KeptForNext
  <1>11. GoesOn'
    <2>1. req'.rc = "ok"
      BY <1>6 DEF NoRequest
    <2> QED  BY <1>1, <1>5, <1>6, <1>8, <1>9, <1>10, <2>1 DEF GoesOn, InCall
  <1> QED  BY <1>3, <1>4, <1>5, <1>7, <1>11 DEF StripesInv, Known

(* Where nothing happens to the page, all stays as it is.                *)
LEMMA StutterKeeps ==
  ASSUME StripesInv, UNCHANGED vars
  PROVE  StripesInv'
  <1>1. /\ page' = page /\ c' = c /\ dec' = dec /\ cache' = cache /\ win' = win
        /\ req' = req /\ out' = out /\ sent' = sent /\ pc' = pc
    BY DEF vars
  <1>2. /\ page \in Pages /\ (HasHeader(page)' <=> HasHeader(page))
    BY <1>1 DEF StripesInv, HasHeader, Decoder
  <1>3. CASE \/ pc \in {"setup", "info"} /\ Fresh
             \/ pc = "done" /\ c = [scale |-> "unknown"]
    BY <1>1, <1>2, <1>3 DEF StripesInv, Fresh, Known
  <1>4. CASE /\ Known /\ c = OutputProperties(page) /\ HasHeader(page)
             /\ Shapes /\ (GoesOn \/ Stopped)
    <2>1. (Printable' <=> Printable) /\ PageHeight' = PageHeight
      BY <1>1, SamePage
    <2>2. Shapes'
      BY <1>1, <1>4, <2>1 DEF Shapes, DecoderShape, Colours
    <2>3. CASE Stopped
      <3>1. Stopped'
        BY <1>1, <2>1, <2>3 DEF Stopped
      <3> QED  BY <1>1, <1>2, <1>4, <2>2, <3>1, GoOn
    <2>4. CASE GoesOn
      <3>1. GoesOn'
        <4>1. DecoderInv(dec)' <=> DecoderInv(dec)
          BY <1>1 DEF DecoderInv, InputRows, RowsToCache, BufferSize, PageWidth, AreaWidth,
             PadLeft, PadRight, Decoder
        <4>2. CacheInv' <=> CacheInv
          BY <1>1 DEF CacheInv
        <4>3. \A b \in Int : WindowBefore(b)' <=> WindowBefore(b)
          BY <1>1, SameWindow
        <4>4. KeptForNext' <=> KeptForNext
          BY <1>1, <4>3, SamePage DEF KeptForNext
        <4>5. Begun' <=> Begun
          BY <1>1, SamePage, SameCall DEF Begun
        <4>6. CallInv' <=> CallInv
          <5>1. /\ StripeTotal' = StripeTotal /\ FirstAsked' = FirstAsked /\ ToMake' = ToMake
                /\ TopCut' = TopCut /\ PageWidth' = PageWidth /\ AreaWidth' = AreaWidth
                /\ PadLeft' = PadLeft /\ PadTop' = PadTop
            BY <1>1, SameCall, SamePage
          <5>2. (Asked' <=> Asked) /\ \A n : Accounts(n)' <=> Accounts(n)
            BY <1>1, <5>1 DEF Asked, Accounts
          <5>3. /\ KeptForCall' <=> KeptForCall
                /\ KeptAfterCall' <=> KeptAfterCall
                /\ KeptAfterReturn' <=> KeptAfterReturn
            BY <1>1, <4>3, <5>1 DEF KeptForCall, KeptAfterCall, KeptAfterReturn
          <5>4. ToScale' <=> ToScale
            BY <1>1, <5>1, <5>2 DEF ToScale
          <5>5. \A r \in Int : InkedRow(r)' <=> InkedRow(r)
            BY <1>1, <5>1, SameInk DEF InkedRow
          <5>6. (PlainInv' <=> PlainInv) /\ (FillsWindow' <=> FillsWindow)
            BY <1>1, StillDecoding
          <5>7. Needed' = Needed
            BY <1>1, SameNeeded
          <5>8. (WindowRight' <=> WindowRight)
            <6>1. 0 \in Int
              OBVIOUS
            <6> QED  BY <1>1, <6>1, SameWindow
          <5>9. FullWindow' <=> FullWindow
            BY <1>1, <5>4, <5>7, <5>8 DEF FullWindow, WindowInv
          <5>10. Inked(ToMake)' <=> Inked(ToMake)
            <6>1. req.blank' = req.blank
              BY <1>1
            <6>2. Inked(ToMake) <=> \A r \in req.blank .. req.blank + ToMake - 1 : InkedRow(r)
              BY DEF Inked
            <6>3. Inked(ToMake)' <=>
                    \A r \in req.blank .. req.blank + ToMake - 1 : InkedRow(r)'
              BY <5>1, <6>1 DEF Inked
            <6>4. \A r \in req.blank .. req.blank + ToMake - 1 : r \in Int
              OBVIOUS
            <6> QED  BY <5>5, <6>2, <6>3, <6>4
          <5>11. MoveInv' <=> MoveInv
            <6>1. req.blank \in Int
              BY <1>4 DEF Shapes, ReqFields
            <6>2. \A j : (IsMoved(j)' <=> IsMoved(j)) /\ (ScaledRow(j)' <=> ScaledRow(j))
              BY <1>1, <5>1, <5>7 DEF IsMoved, ScaledRow, ScaledPixel
            <6>3. \A j \in 0 .. ToMake - 1 : InkedRow(req.blank + j)' <=> InkedRow(req.blank + j)
              <7>1. ASSUME NEW j \in 0 .. ToMake - 1
                    PROVE  InkedRow(req.blank + j)' <=> InkedRow(req.blank + j)
                <8>1. PICK r \in Int : r = req.blank + j
                  BY <6>1
                <8>2. InkedRow(r)' <=> InkedRow(r)
                  BY <5>5
                <8>3. r = req'.blank + j
                  BY <1>1, <8>1
                <8> QED  BY <8>1, <8>2, <8>3 DEF InkedRow, Ink
              <7> QED  BY <7>1
            <6> QED  BY <1>1, <5>1, <6>2, <6>3 DEF MoveInv
          <5>12. StripeInv' <=> StripeInv
            BY <1>1, <5>1, SameExpected DEF StripeInv
          <5>13. Accounts(ToMake)' <=> Accounts(ToMake)
            BY <1>1, <5>1 DEF Accounts
          <5> QED  BY <1>1, <5>1, <5>2, <5>3, <5>4, <5>6, <5>9, <5>10, <5>11, <5>12, <5>13
                   DEF CallInv
        <4> QED  BY <1>1, <2>1, <2>4, <4>1, <4>2, <4>4, <4>5, <4>6 DEF GoesOn
      <3> QED  BY <1>1, <1>2, <1>4, <2>2, <3>1, GoOn
    <2> QED  BY <1>4, <2>3, <2>4
  <1> QED  BY <1>3, <1>4 DEF StripesInv

(***************************************************************************)
(* What the invariant of the drawing says of a page.                       *)
(***************************************************************************)

(* The properties of a page are known when it is drawn.                    *)
LEMMA KnownFacts ==
  ASSUME StripesInv, Known
  PROVE  /\ page \in Pages /\ c = OutputProperties(page) /\ HasHeader(page)
         /\ Shapes /\ (GoesOn \/ Stopped)
  BY DEF StripesInv, Known, Fresh

(* The state has its shape.                                              *)
LEMMA TypesAreRight ==
  ASSUME StripesInv, Known
  PROVE  TypeOK
  <1>1. /\ page \in Pages /\ c = OutputProperties(page) /\ Shapes /\ (GoesOn \/ Stopped)
    BY KnownFacts
  <1>2. /\ c.scale \in {"none", "autoScale", "autoFit"} /\ c.mode \in {"none", "up", "down"}
    <2>1. /\ c.scale \in {"none", "autoScale", "autoFit"}
          /\ c.scale = "none" => c.mode = "none"
      BY <1>1, PropertiesAre
    <2>2. c.scale # "none" => c.mode \in {"up", "down"}
      BY <1>1, ScaledIs
    <2> QED  BY <2>1, <2>2
  <1>3. c.printW > 0 /\ c.printH > 0 /\ c.scaledW > 0 /\ c.scaledH > 0
    <2>1. /\ c.printW \in Nat \ {0} /\ c.printH \in Nat \ {0}
          /\ c.scaledW \in Nat \ {0} /\ c.scaledH \in Nat \ {0}
      BY <1>1, SizesAre
    <2> QED  BY <2>1
  <1>4. c.rowOff >= 0 /\ c.colOff >= 0
    <2>1. c.rowOff \in Nat /\ c.colOff \in Nat
      BY <1>1, LayoutIs
    <2> QED  BY <2>1
  <1>5. sent \in 0 .. PageHeight /\ dec.swath >= -1 /\ dec.pos >= 0
    BY <1>1 DEF Shapes, DecoderShape
  <1>6. req.rc \in {"ok", "nothing", "error"}
    BY <1>1 DEF GoesOn, Stopped
  <1>7. \A i \in DOMAIN out : out[i] \in {Blank, Stale} \cup (Nat \X Nat)
    BY <1>1 DEF Shapes, Colours
  <1>8. pc \in {"setup", "info", "page", "plain", "scaling", "rows", "decode", "fill",
                "emit", "move", "sides", "return", "done"}
    BY <1>1 DEF Shapes, InCall
  <1> QED  BY <1>1, <1>2, <1>3, <1>4, <1>5, <1>6, <1>7, <1>8 DEF TypeOK

(* A stripe is the rows of the page it is for.                           *)
LEMMA StripesAreRight ==
  ASSUME StripesInv
  PROVE  StripeIsRight
  <1> SUFFICES ASSUME pc = "return", req.rc = "ok",
                      NEW r \in 0 .. req.height - 1, NEW x \in 0 .. PageWidth - 1
               PROVE  \/ Overprinted(sent + r)
                      \/ Discoloured(sent + r, x)
                      \/ out[r * PageWidth + x] = Expected(sent + r, x)
    BY DEF StripeIsRight
  <1>1. CallInv /\ sent \in Nat
    BY CallFacts DEF InCall
  <1>2. StripeInv /\ r \in Nat
    BY <1>1 DEF CallInv
  <1>3. PICK row \in Nat : row = sent + r
    BY <1>1, <1>2
  <1>4. Overprinted(row) \/ out[r * PageWidth + x] = Made(row, x)
    BY <1>2, <1>3 DEF StripeInv
  <1>5. Discoloured(row, x) \/ Made(row, x) = Expected(row, x)
    <2> DEFINE y == row - PadTop
               z == x - PadLeft
    <2>1. CASE y \notin 0 .. AreaHeight - 1 \/ z \notin 0 .. AreaWidth - 1
      BY <2>1 DEF Made, Expected
    <2>2. CASE y \in 0 .. AreaHeight - 1 /\ z \in 0 .. AreaWidth - 1 /\ c.scale = "none"
      BY <2>2 DEF Made, Expected, SeenPixel
    <2>3. CASE y \in 0 .. AreaHeight - 1 /\ z \in 0 .. AreaWidth - 1 /\ c.scale # "none"
      <3>1. Made(row, x) = ScaledPixel(ScaledAt(row), z + LeftCut)
        BY <2>3 DEF Made, ScaledAt, TopCut
      <3>2. Expected(row, x) = <<ScaledAt(row), z + LeftCut>>
        BY <2>3 DEF Expected, LeftCut
      <3> QED  BY <2>3, <3>1, <3>2 DEF Discoloured, ScaledPixel
    <2> QED  BY <2>1, <2>2, <2>3
  <1> QED  BY <1>3, <1>4, <1>5

(* The scaler has its rows, and room for them.                           *)
LEMMA WindowIsRight ==
  ASSUME StripesInv
  PROVE  WindowHoldsRows /\ WindowSuffices
  <1> SUFFICES ASSUME pc = "emit" PROVE WindowHoldsRows /\ WindowSuffices
    BY DEF WindowHoldsRows, WindowSuffices
  <1>1. /\ page \in Pages /\ c = OutputProperties(page) /\ sent \in Nat /\ sent < PageHeight
        /\ req.blank = WhiteRows
    BY CallFacts DEF InCall
  <1>2. /\ ToScale /\ FullWindow /\ c.scale # "none" /\ req.at \in Nat /\ StripeRows = ToMake
        /\ ToMake \in Nat /\ ToMake >= 1
    BY ScalerFacts
  <1>3. PICK s \in 0 .. req.at, e \in req.at + ToMake - 1 .. c.scaledH - 1 :
          /\ Needed.first = FirstRow(s) /\ Needed.last = LastRow(e)
          /\ Needed.first \in Nat /\ Needed.last \in 0 .. c.srcH - 1
          /\ Needed.last - Needed.first + 1 <= c.winRows
    <2>1. \E s \in 0 .. req.at, e \in req.at + ToMake - 1 .. c.scaledH - 1 :
            /\ req.at \in 0 .. c.scaledH - 1 /\ StripeRows = ToMake
            /\ Needed.first = FirstRow(s) /\ Needed.last = LastRow(e) /\ Needed.start = s
            /\ Needed.first \in Nat /\ Needed.last \in 0 .. c.srcH - 1
            /\ Needed.first <= Needed.last
            /\ Needed.last - Needed.first + 1 <= c.winRows /\ c.winRows \in Nat
            /\ Needed.offset = req.at - s /\ Needed.offset \in {0, 1}
            /\ Needed.offset = 1 => ToMake = 1
            /\ e <= req.at + ToMake
            /\ ToMake + Needed.offset <= Needed.rows /\ Needed.rows \in Nat
            /\ req.blank + ToMake + Needed.offset <= c.outRows /\ c.outRows \in Nat
      BY <1>1, <1>2, NeededIs
    <2> QED  BY <2>1
  <1>4. /\ WindowRight /\ win.first = FirstRow(s) /\ win.last = LastRow(e)
        /\ Len(win.rows) = win.last - win.first + 1
    BY <1>2, <1>3 DEF FullWindow, WindowInv
  <1>5. /\ c.scaledH \in Nat /\ c.srcH \in Nat
    BY <1>1, SizesAre
  <1>6. WindowSuffices
    BY <1>3, <1>4 DEF WindowSuffices
  <1>7. ASSUME NEW y \in req.at .. req.at + StripeRows - 1,
               NEW r \in SourceRows(c.mode, c.srcH, c.scaledH, y)
        PROVE  /\ r - win.first + 1 \in DOMAIN win.rows
               /\ win.rows[r - win.first + 1] = [x \in 0 .. c.outW - 1 |-> Seen(TurnedPixel(r, x))]
    <2>1. /\ y \in 0 .. c.scaledH - 1 /\ s \in 0 .. c.scaledH - 1 /\ e \in 0 .. c.scaledH - 1
          /\ s <= y /\ y <= e
      BY <1>2, <1>5
    <2>2. r \in FirstRow(y) .. LastRow(y)
      BY <1>1, <1>2, <2>1, RowsAre
    <2>3. FirstRow(s) <= FirstRow(y) /\ LastRow(y) <= LastRow(e)
      BY <1>1, <1>2, <2>1, RowsGrow
    <2>4. /\ FirstRow(s) \in 0 .. c.srcH - 1 /\ LastRow(e) \in 0 .. c.srcH - 1
          /\ FirstRow(y) \in 0 .. c.srcH - 1 /\ LastRow(y) \in 0 .. c.srcH - 1
      BY <1>1, <1>2, <2>1, RowsAre
    <2>5. PICK i \in 1 .. Len(win.rows) : i = r - win.first + 1
      BY <1>4, <2>2, <2>3, <2>4
    <2>6. r \in Nat /\ r = win.first + i - 1
      BY <1>4, <2>2, <2>4, <2>5
    <2>7. win.rows[i] = [x \in 0 .. c.outW - 1 |-> Seen(TurnedPixel(r, x))]
      BY <1>4, <2>6 DEF WindowRight, SeenPixel
    <2>8. DOMAIN win.rows = 1 .. Len(win.rows)
      BY <1>4 DEF WindowRight
    <2> QED  BY <2>5, <2>7, <2>8
  <1> QED  BY <1>6, <1>7 DEF WindowHoldsRows

(* When an enlarged image is more than two stripes high, room is made for  *)
(* a full stripe and two rows more, if any stripe makes the row more: were *)
(* it not so, the last rows of the first two stripes would be rows of the  *)
(* source as they are, and so would every other.                           *)
LEMMA ExtraRoom ==
  ASSUME page \in Pages, c = OutputProperties(page), c.scale # "none", c.mode = "up",
         AreaHeight >= 2 * StripHeight + 1, NEW e \in 0 .. c.scaledH - 1, RowMore(e) # 0
  PROVE  c.outRows >= StripHeight + 2
  <1> DEFINE S == StripHeight
             d == c.scaledH - 1
             n == c.srcH - 1
             rows(i) == ScalingRows(c.mode, c.srcH, c.scaledH, i,
                                    Least(i + StripHeight - 1, c.scaledH - 1)).rows
  <1>1. /\ S \in Nat \ {0} /\ c.scaledH \in Nat \ {0} /\ c.printH \in Nat \ {0}
        /\ c.srcH \in Nat \ {0} /\ c.scaledH > 2 * S /\ c.printH > 2 * S /\ c.outRows \in Nat
    BY LayoutIs, SizesAre, RoomIs, StripeAssumption DEF Least
  <1>2. d \in Nat \ {0} /\ n \in Nat /\ d >= 2 * S
    BY <1>1
  <1>3. rows(0) + 1 <= c.outRows /\ rows(S) + 1 <= c.outRows
    <2>1. 0 \in 0 .. Least(c.printH, c.scaledH) - 1 /\ S \in 0 .. Least(c.printH, c.scaledH) - 1
      BY <1>1 DEF Least
    <2>2. 0 % S = 0 /\ S % S = 0
      BY <1>1
    <2> QED  BY <2>1, <2>2, RoomIs
  <1>4. CASE S = 1
    <2>1. Least(0 + StripHeight - 1, c.scaledH - 1) = 0
      BY <1>1, <1>4 DEF Least
    <2>2. rows(0) \in {EndOf(0, 0) - StartOf(0, 0) + 1, EndOf(0, 0) - StartOf(0, 0) + 2}
      <3>1. 0 \in 0 .. c.scaledH - 1 /\ 0 \in 0 .. c.scaledH - 1
        BY <1>1
      <3>2. LET n0 == ScalingRows(c.mode, c.srcH, c.scaledH, 0, 0)
                s == StartOf(0, 0)
                e0 == EndOf(0, 0)
            IN n0.rows \in {e0 - s + 1, e0 - s + 2}
        BY <3>1, ScalingRowsAre
      <3> QED  BY <2>1, <3>2
    <2>3. EndOf(0, 0) = 1 /\ StartOf(0, 0) = 0
      BY <1>1, <1>4 DEF EndOf, StartOf, Least
    <2> HIDE DEF rows
    <2> QED  BY <1>1, <1>3, <1>4, <2>2, <2>3
  <1>5. CASE S > 1
    <2>1. rows(0) = S + RowMore(S - 1) /\ rows(S) = S + RowMore(2 * S - 1)
      <3>1. /\ Least(0 + StripHeight - 1, c.scaledH - 1) = S - 1
            /\ Least(S + StripHeight - 1, c.scaledH - 1) = 2 * S - 1
        BY <1>1 DEF Least
      <3>2. /\ 0 \in 0 .. c.scaledH - 1 /\ S - 1 \in 0 .. c.scaledH - 1
            /\ S \in 0 .. c.scaledH - 1 /\ 2 * S - 1 \in S .. c.scaledH - 1
        BY <1>1
      <3>3. /\ StartOf(0, S - 1) = 0 /\ EndOf(0, S - 1) = S - 1
            /\ StartOf(S, 2 * S - 1) = S /\ EndOf(S, 2 * S - 1) = 2 * S - 1
        BY <1>1, <1>5 DEF StartOf, EndOf
      <3>4. rows(0) = (S - 1) - 0 + 1 + RowMore(S - 1)
        <4>1. LET n0 == ScalingRows(c.mode, c.srcH, c.scaledH, 0, S - 1)
                  s == StartOf(0, S - 1)
                  e0 == EndOf(0, S - 1)
              IN n0.rows = e0 - s + 1 + (IF c.mode = "up" THEN RowMore(e0) ELSE 0)
          BY <3>2, ScalingRowsAre
        <4> QED  BY <3>1, <3>3, <4>1
      <3>5. rows(S) = (2 * S - 1) - S + 1 + RowMore(2 * S - 1)
        <4>1. LET n0 == ScalingRows(c.mode, c.srcH, c.scaledH, S, 2 * S - 1)
                  s == StartOf(S, 2 * S - 1)
                  e0 == EndOf(S, 2 * S - 1)
              IN n0.rows = e0 - s + 1 + (IF c.mode = "up" THEN RowMore(e0) ELSE 0)
          BY <3>2, ScalingRowsAre
        <4> QED  BY <3>1, <3>3, <4>1
      <3>6. RowMore(S - 1) \in Int /\ RowMore(2 * S - 1) \in Int
        BY DEF RowMore, Rest
      <3> HIDE DEF rows
      <3> QED  BY <1>1, <3>4, <3>5, <3>6
    <2>2. RowMore(S - 1) = 1 \/ RowMore(2 * S - 1) = 1
      <3> SUFFICES ASSUME RowMore(S - 1) # 1, RowMore(2 * S - 1) # 1 PROVE FALSE
        OBVIOUS
      <3>1. ((S - 1) * n) % d = 0 /\ ((2 * S - 1) * n) % d = 0
        BY DEF RowMore, Rest
      <3>2. PICK p \in Int, q \in Int : (S - 1) * n = d * p /\ (2 * S - 1) * n = d * q
        <4>1. (S - 1) * n \in Int /\ (2 * S - 1) * n \in Int
          BY <1>1, <1>2
        <4> DEFINE a == (S - 1) * n
                   b == (2 * S - 1) * n
        <4>2. a \in Int /\ b \in Int /\ a % d = 0 /\ b % d = 0
          BY <3>1, <4>1
        <4> HIDE DEF a, b, d
        <4>3. a = d * (a \div d) /\ b = d * (b \div d) /\ a \div d \in Int /\ b \div d \in Int
          BY <1>2, <4>2, Division
        <4> QED  BY <4>3 DEF a, b
      <3>3. PICK k \in Int : n = d * k
        <4>1. n = (2 * S - 1) * n - 2 * ((S - 1) * n)
          BY <1>1, <1>2
        <4>2. d * q - 2 * (d * p) = d * (q - 2 * p)
          BY <1>2
        <4> HIDE DEF n, d
        <4>3. n = d * (q - 2 * p) /\ q - 2 * p \in Int
          BY <3>2, <4>1, <4>2
        <4> QED  BY <4>3
      <3>4. (e * n) % d = 0
        <4>1. e \in Int /\ e * k \in Int
          BY <1>1
        <4>2. e * (d * k) = d * (e * k)
          BY <1>2, <4>1
        <4> DEFINE m == e * k
        <4> HIDE DEF d, n, m
        <4>3. d * m <= d * m /\ d * m < d * m + d /\ d * m \in Int /\ m \in Int
          BY <1>2, <4>1 DEF m
        <4>4. (d * m) % d = d * m - d * m
          BY <1>2, <4>3, QuotientIs
        <4> QED  BY <3>3, <4>2, <4>3, <4>4 DEF m
      <3> QED  BY <3>4 DEF RowMore, Rest
    <2>3. RowMore(S - 1) \in {0, 1} /\ RowMore(2 * S - 1) \in {0, 1}
      BY DEF RowMore, Rest
    <2> HIDE DEF rows
    <2> QED  BY <1>1, <1>3, <2>1, <2>2, <2>3
  <1> QED  BY <1>1, <1>4, <1>5

(* The rows the scaler makes fit behind the white ones.                    *)
LEMMA MadeFit ==
  ASSUME page \in Pages, c = OutputProperties(page), sent \in Nat, sent < PageHeight,
         req.blank = WhiteRows, ToScale,
         AreaHeight >= (IF c.mode = "up" THEN 2 * StripHeight + 1 ELSE StripHeight)
  PROVE  Needed.rows \in Nat \ {0} /\ req.blank + Needed.rows <= c.outRows
  <1> DEFINE at == req.at
             last == at + ToMake - 1
             s == StartOf(at, last)
             e == EndOf(at, last)
  <1>1. /\ StripeTotal \in 1 .. StripHeight /\ StripHeight \in Nat \ {0}
        /\ req.blank \in 0 .. StripeTotal /\ req.blank < StripeTotal
        /\ FirstAsked \in 0 .. AreaHeight - 1 /\ AreaHeight \in Nat
        /\ ToMake \in 1 .. StripeTotal - req.blank
        /\ FirstAsked + TopCut + ToMake <= c.scaledH /\ TopCut \in Nat
        /\ c.scaledH \in Nat \ {0} /\ AreaHeight <= c.scaledH
    <2>1. c.scale # "none" /\ req.blank < StripeTotal
      BY DEF ToScale, Asked
    <2>2. AreaHeight \in Nat /\ c.scaledH \in Nat \ {0} /\ c.printH \in Nat
          /\ AreaHeight = Least(c.scaledH, c.printH)
      BY LayoutIs, SizesAre
    <2>3. AreaHeight <= c.scaledH
      BY <2>2 DEF Least
    <2> QED  BY <2>1, <2>2, <2>3, CallIs
  <1>2. c.scale # "none" /\ at = FirstAsked + TopCut /\ req.scaled = ToMake
    BY DEF ToScale
  <1>3. at \in 0 .. c.scaledH - 1 /\ last \in at .. c.scaledH - 1
    BY <1>1, <1>2
  <1>4. Needed = ScalingRows(c.mode, c.srcH, c.scaledH, at, last)
    <2>1. StripeRows = ToMake
      BY <1>1, <1>2 DEF StripeRows, Least
    <2>2. Least(at + StripeRows - 1, c.scaledH - 1) = last
      BY <1>1, <1>3, <2>1 DEF Least
    <2> HIDE DEF last
    <2> QED  BY <2>2 DEF Needed
  <1>5. /\ Needed.rows = e - s + 1 + (IF c.mode = "up" THEN RowMore(e) ELSE 0)
        /\ s \in 0 .. at /\ e \in 0 .. c.scaledH - 1 /\ s <= e
        /\ e - s <= ToMake /\ (ToMake > 1 => e - s = ToMake - 1)
    <2> HIDE DEF at, last, s, e
    <2>1. LET n == ScalingRows(c.mode, c.srcH, c.scaledH, at, last)
          IN /\ n.rows = e - s + 1 + (IF c.mode = "up" THEN RowMore(e) ELSE 0)
             /\ s \in 0 .. at /\ at - 1 <= s /\ (at # last => s = at)
             /\ e \in last .. c.scaledH - 1 /\ e <= last + 1 /\ s <= e
             /\ (e = last + 1 => at = 0 /\ last = 0)
      BY <1>2, <1>3, ScalingRowsAre DEF s, e
    <2>2. last = at + ToMake - 1 /\ at \in Nat /\ ToMake \in Nat \ {0}
      BY <1>1, <1>3 DEF last
    <2>3. e - s <= ToMake /\ (ToMake > 1 => e - s = ToMake - 1)
      BY <1>3, <2>1, <2>2
    <2> QED  BY <1>3, <1>4, <2>1, <2>2, <2>3
  <1>6. RowMore(e) \in {0, 1}
    BY DEF RowMore, Rest
  <1> HIDE DEF s, e, last, at
  <1>7. c.outRows \in Nat /\ c.outRows >= StripHeight + 1
    <2>1. c.scaledH >= StripHeight
      BY <1>1
    <2> QED  BY <1>2, <2>1, RoomIs
  <1>8. c.mode = "up" /\ RowMore(e) # 0 => c.outRows >= StripHeight + 2
    BY <1>1, <1>2, <1>5, ExtraRoom
  <1>9. PICK x \in {0, 1} : x = IF c.mode = "up" THEN RowMore(e) ELSE 0
    BY <1>6
  <1>10. Needed.rows = e - s + 1 + x
    BY <1>5, <1>9
  <1>11. c.outRows >= StripHeight + 1 + x
    <2>1. CASE x = 0
      BY <1>1, <1>7, <2>1
    <2>2. CASE x = 1
      <3>1. c.mode = "up" /\ RowMore(e) # 0
        BY <1>9, <2>2
      <3>2. c.outRows >= StripHeight + 2
        BY <1>8, <3>1
      <3> QED  BY <1>1, <1>7, <2>2, <3>2
    <2> QED  BY <1>9, <2>1, <2>2
  <1>a. s \in Nat /\ e \in Nat /\ at \in Nat
    BY <1>1, <1>3, <1>5
  <1>b. ToMake \in Nat /\ req.blank \in Nat
    BY <1>1
  <1>12. PICK i \in Nat, j \in Nat, m \in Nat, b \in Nat, w \in Nat :
           i = s /\ j = e /\ m = ToMake /\ b = req.blank /\ w = c.outRows
    BY <1>a, <1>b, <1>7
  <1>13. i <= j /\ j - i <= m /\ (m > 1 => j - i = m - 1) /\ m >= 1
    BY <1>1, <1>5, <1>12
  <1>14. b + m <= StripHeight /\ StripHeight \in Nat /\ w >= StripHeight + 1 + x
    BY <1>1, <1>11, <1>12
  <1>15. Needed.rows = j - i + 1 + x
    BY <1>10, <1>12
  <1> QED  BY <1>9, <1>12, <1>13, <1>14, <1>15

(* They fit in the buffer.                                                 *)
LEMMA RowsMadeFit ==
  ASSUME StripesInv
  PROVE  TallImagesFit
  <1> SUFFICES ASSUME AreaHeight >= (IF c.mode = "up" THEN 2 * StripHeight + 1 ELSE StripHeight),
                      pc = "emit"
               PROVE  req.height * PageWidth + Needed.rows * c.scaledW <= BufferSize
    BY DEF TallImagesFit, ScalerFits
  <1>1. /\ page \in Pages /\ c = OutputProperties(page) /\ sent \in Nat /\ sent < PageHeight
        /\ req.blank = WhiteRows
    BY CallFacts DEF InCall
  <1>2. ToScale /\ req.height = req.blank
    BY ScalerFacts
  <1>3. Needed.rows \in Nat \ {0} /\ req.blank + Needed.rows <= c.outRows
    BY <1>1, <1>2, MadeFit
  <1>4. PICK k \in Nat, b \in Nat, w \in Nat \ {0} :
          k = Needed.rows - 1 /\ b = req.blank /\ w = c.scaledW
    <2>1. req.blank \in 0 .. StripeTotal /\ StripeTotal \in Nat
      BY <1>1, CallIs
    <2> QED  BY <1>1, <1>3, <2>1, SizesAre
  <1>5. /\ b * PageWidth + (k * c.scaledW + (w - 1)) \in 0 .. BufferSize - 1
        /\ b * PageWidth \in Nat /\ k * c.scaledW \in Nat
    <2>1. b + k < c.outRows /\ w - 1 \in Nat /\ w - 1 < c.scaledW
      <3>1. c.outRows \in Nat
        BY <1>1, RoomIs
      <3> QED  BY <1>3, <1>4, <3>1
    <2> QED  BY <1>1, <2>1, InBuffer
  <1>6. Needed.rows * w = k * w + w
    BY <1>3, <1>4
  <1>7. BufferSize \in Int
    BY <1>1, CachedRows
  <1> QED  BY <1>2, <1>4, <1>5, <1>6, <1>7

(* Together: the page is right.                                            *)
LEMMA StripesArePage ==
  ASSUME StripesInv
  PROVE  PageIsRight
  <1>1. Known => TypeOK
    BY TypesAreRight
  <1>2. PageIsFilled
    <2>1. CASE Known
      BY <2>1, KnownFacts, FilledIs
    <2> QED  BY <2>1 DEF PageIsFilled
  <1> QED  BY <1>1, <1>2, StripesAreRight, WindowIsRight, RowsMadeFit DEF PageIsRight

(* A page ends whole, or with an error that has a cause.                 *)
LEMMA StripesPrint ==
  ASSUME StripesInv
  PROVE  GoodImagesPrint
  <1> SUFFICES ASSUME pc = "done"
               PROVE  IF HasHeader(page) /\ page.bad = -1 /\ ~ LosesLastSwath
                      THEN req.rc = "ok" /\ sent = PageHeight
                      ELSE req.rc = "error" \/ (HasHeader(page) /\ sent = PageHeight)
    BY DEF GoodImagesPrint
  <1>1. CASE Known
    BY <1>1, KnownFacts DEF GoesOn, Stopped, Printable
  <1>2. CASE ~ Known
    BY <1>2 DEF StripesInv
  <1> QED  BY <1>1, <1>2

(* Every step of the drawing keeps the invariant.                          *)
LEMMA StepKeeps ==
  ASSUME StripesInv, [Next]_vars
  PROVE  StripesInv'
  <1>1. CASE GetInfo
    BY <1>1, GetInfoKeeps
  <1>2. CASE SetOutputProperties
    BY <1>2, SetOutputPropertiesKeeps
  <1>3. CASE Request
    BY <1>3, RequestKeeps
  <1>4. CASE Plain
    BY <1>4, PlainKeeps
  <1>5. CASE Scaling
    BY <1>5, ScalingKeeps
  <1>6. CASE Window
    BY <1>6, WindowKeeps
  <1>7. CASE Upright
    BY <1>7, UprightKeeps
  <1>8. CASE FromCache
    BY <1>8, FromCacheKeeps
  <1>9. CASE Refill
    BY <1>9, RefillKeeps
  <1>10. CASE Fill
    BY <1>10, FillKeeps
  <1>11. CASE Decode
    BY <1>11, DecodeKeeps
  <1>12. CASE Emit
    BY <1>12, EmitKeeps
  <1>13. CASE MoveRow
    BY <1>13, MoveRowKeeps
  <1>14. CASE Placed
    BY <1>14, PlacedKeeps
  <1>15. CASE ScaledAll
    BY <1>15, ScaledAllKeeps
  <1>16. CASE Sides
    BY <1>16, SidesKeeps
  <1>17. CASE Return
    BY <1>17, ReturnKeeps
  <1>18. CASE UNCHANGED vars
    BY <1>18, StutterKeeps
  <1> QED  BY <1>1, <1>2, <1>3, <1>4, <1>5, <1>6, <1>7, <1>8, <1>9, <1>10, <1>11, <1>12,
              <1>13, <1>14, <1>15, <1>16, <1>17, <1>18 DEF Next

(***************************************************************************)
(* A page of a job.                                                        *)
(***************************************************************************)

(* Nothing is drawn yet, or the drawing is as it should be.                *)
DrawInv == IF pc = "job" THEN Fresh ELSE StripesInv

(* It says what the run checks.                                            *)
LEMMA DrawHolds == DrawInv => PageIsRight /\ GoodImagesPrint
  <1> SUFFICES ASSUME DrawInv PROVE PageIsRight /\ GoodImagesPrint
    OBVIOUS
  <1>1. CASE pc = "job"
    <2>1. ~ Known
      BY <1>1 DEF DrawInv, Fresh, Known
    <2> QED  BY <1>1, <2>1 DEF PageIsRight, StripeIsRight, PageIsFilled, WindowHoldsRows,
                WindowSuffices, TallImagesFit, GoodImagesPrint
  <1>2. CASE pc # "job"
    BY <1>2, StripesArePage, StripesPrint DEF DrawInv
  <1> QED  BY <1>1, <1>2

(* A page that is begun is one of the pages.                               *)
LEMMA PageBegins ==
  ASSUME PageInv, DrawInv, NEW image \in Images, NEW number \in {1, 2}, PrintPage(image, number)
  PROVE  DrawInv'
  <1> DEFINE r    == job.request
             caps == Capabilities(r[1])
             s    == SettingsOf(job.returned, r)
  <1>1. /\ pc = "job" /\ job.stage = "started" /\ r \in Drawn /\ pc' = "setup"
        /\ page' = PageOf(job.native, image, number)
        /\ c' = c /\ dec' = dec /\ cache' = cache /\ win' = win /\ req' = req
        /\ out' = out /\ sent' = sent
    BY DEF PrintPage
  <1>2. job.native = StartedWith(s, caps) /\ job.returned \in BOOLEAN
    BY <1>1 DEF PageInv, JobInv, NoJob
  <1>3. s \in {r[2], Merged(GetJobParams(FinalParams(DefaultJobParams, r[2], caps)), r[2])}
    BY DEF SettingsOf, Second, Final
  <1>4. StartedWith(s, caps) =
          [ToC(FinalParams(DefaultJobParams, s, caps)) EXCEPT !.pcl = PrintFormat(caps)]
    BY DEF StartedWith, Final
  <1> HIDE DEF s
  <1>5. PageOf(job.native, image, number) \in Pages
    BY <1>1, <1>2, <1>3, <1>4, DrawnAssumption
  <1>6. Fresh'
    BY <1>1 DEF DrawInv, Fresh
  <1> QED  BY <1>1, <1>5, <1>6 DEF DrawInv, StripesInv

(* The client leaves the page alone, and the drawing goes on as above.   *)
LEMMA DrawKeeps ==
  ASSUME PageInv, DrawInv, [PrintedNext]_allVars
  PROVE  DrawInv'
  <1>1. CASE \/ \E r \in Requests : Ask(r)
             \/ Resolve \/ Answer \/ TakeAnswer \/ StartJob \/ NextJob
    <2>1. pc = "job" /\ UNCHANGED vars
      BY <1>1 DEF Ask, Resolve, Answer, TakeAnswer, StartJob, NextJob
    <2> QED  BY <2>1 DEF DrawInv, Fresh, vars
  <1>2. CASE \E image \in Images, number \in {1, 2} : PrintPage(image, number)
    BY <1>2, PageBegins
  <1>3. CASE Draw
    <2>1. Next /\ pc # "job" /\ pc' # "job"
      BY <1>3, DrawLeaves DEF Draw
    <2>2. StripesInv'
      BY <2>1, StepKeeps DEF DrawInv
    <2> QED  BY <2>1, <2>2 DEF DrawInv
  <1>4. CASE UNCHANGED allVars
    <2>1. UNCHANGED vars /\ pc' = pc
      BY <1>4 DEF allVars, vars
    <2>2. CASE pc = "job"
      BY <2>1, <2>2 DEF DrawInv, Fresh, vars
    <2>3. CASE pc # "job"
      BY <2>1, <2>3, StutterKeeps DEF DrawInv
    <2> QED  BY <2>2, <2>3
  <1> QED  BY <1>1, <1>2, <1>3, <1>4 DEF PrintedNext

(* The parameters of the job and the drawing of its page, together.        *)
LEMMA PrintedHolds == PrintedSpec => [](PageInv /\ DrawInv)
  <1>1. PrintedInit => PageInv /\ DrawInv
    BY DEF PrintedInit, PageInv, JobInv, DrawInv
  <1>2. PageInv /\ DrawInv /\ [PrintedNext]_allVars => (PageInv /\ DrawInv)'
    BY PageKeeps, DrawKeeps
  <1> QED  BY <1>1, <1>2, PTL DEF PrintedSpec

(* Whatever the image, the sheet and the job, of any size (but images of a *)
(* single row or column that are enlarged, see Drawable): every row the    *)
(* plugin gets from wprint_image_decode_stripe is that row of the page,    *)
(* pixel by pixel, turned, cut, scaled and in its place, with no trace of  *)
(* the stripe before it, but for rows below an image cut at the bottom and *)
(* rows reduced from nine rows of the image, whose green and blue are not  *)
(* written; of an interlaced PNG the first pass is printed. The scaler has *)
(* every row it weighs, in the memory there is for them, and, when the     *)
(* image on the page is a stripe high, or more than two if it is enlarged, *)
(* room for the rows it makes; the page has the size it should.            *)
THEOREM PagesComeOutRight == PrintedSpec => []PageIsRight
  BY PrintedHolds, DrawHolds, PTL

(* A page of a good image ends with all its rows sent; one ends with an    *)
(* error only if its file is not what it is said to be, or a row of it     *)
(* cannot be read (GoodImagesPrint).                                       *)
THEOREM GoodPagesEndWhole == PrintedSpec => []GoodImagesPrint
  BY PrintedHolds, DrawHolds, PTL
=================================================================================
