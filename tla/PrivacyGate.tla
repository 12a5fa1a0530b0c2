----------------------------- MODULE PrivacyGate -----------------------------
(***************************************************************************)
(* gate.rs of qaptr-privacy: the one way from a capture to a payload for a *)
(* provider.  Local recognition, masking, a second recognition of the      *)
(* masked bytes and sanitization run in this order against one deadline;   *)
(* what a recognizer reports, and when, is up to it.                       *)
(***************************************************************************)
EXTENDS ImageMasking, ContextSanitizer

CONSTANTS
  Inputs,     \* PreparationInput with the labelled corpus of the recall
  Reports,    \* the region lists a recognizer may return
  Budget,     \* the preparation budget
  MaxElapsed, \* bound: the clock runs up to here
  NoImage

ASSUME GateAssumption ==
  /\ Budget \in Nat /\ MaxElapsed \in Nat
  /\ \A i \in Inputs : /\ i.orientation \in Orientation
                       /\ i.size \in [w : Nat \ {0}, h : Nat \ {0}]
                       /\ 8 * i.size.w <= Significand /\ 8 * i.size.h <= Significand
                       /\ {i.image, i.allowed, i.recognizer} \subseteq BOOLEAN
                       /\ \A f \in Range(i.context) :
                            /\ f.text \in Seq(Token)
                            /\ f.field = "browser_host" => Len(f.text) <= 1
  /\ \A report \in Reports : \A i \in DOMAIN report :
       report[i].rect \in NormalizedRect \cup {NoRect}
  /\ NoImage \notin [of : {"capture"}, size : [w : Nat, h : Nat], black : SUBSET (Int \X Int)]

VARIABLES
  input,    \* what is being prepared
  stage,    \* the call the gate makes next, or done
  elapsed,  \* time since prepare began
  first,    \* recognition of the input
  again,    \* recognition of the masked image
  masked,   \* the masked image
  coverage, \* the proof: the hash it is bound to and its entries
  context,  \* the sanitized fields
  result    \* the payload, or the reason of the exclusion

vars == <<input, stage, elapsed, first, again, masked, coverage, context, result>>

Original == [of |-> "capture", size |-> input.size, black |-> {}]
Recognition == [regions : Reports, partial : BOOLEAN, of : {"ports", "this", "other"}]

NoRecognition == [regions |-> <<>>, partial |-> FALSE, of |-> "none"]
NoCoverage == [hash |-> NoImage, entries |-> <<>>]

(* recall.rs reports on the recognizers the gate is built with. *)
Recall == MeasureRecall(input.corpus.labels, input.corpus.found, input.corpus.threshold)

NoResult == [how |-> "none", at |-> "recognize", image |-> NoImage, coverage |-> NoCoverage,
             recall |-> [used |-> {}, matched |-> 0, missed |-> {}]]

Excluded(reason) == result' = [NoResult EXCEPT !.how = reason, !.at = stage] /\ stage' = "done"
Passes(next) == stage' = next /\ UNCHANGED result

(* check_budget *)
TimePasses == elapsed' \in elapsed..MaxElapsed
InTime == elapsed' <= Budget

-----------------------------------------------------------------------------
(* The inputs prepare refuses: an image may be sent only with a recognizer, *)
(* and neither comes without an image.                                      *)
Configured == /\ input.allowed => input.recognizer
              /\ input.allowed \/ input.recognizer => input.image

Misconfigured ==
  /\ stage = "recognize" /\ ~ Configured
  /\ Excluded("masking")
  /\ UNCHANGED <<input, elapsed, first, again, masked, coverage, context>>

RecognizeErr ==
  /\ stage \in {"recognize", "rerun"} /\ Configured
  /\ TimePasses
  /\ Excluded("recognition")
  /\ UNCHANGED <<input, first, again, masked, coverage, context>>

(* With a recognizer of its own an image is recognized by its bytes, else  *)
(* the ports are asked for the capture.  The deadline is looked at before  *)
(* the result.                                                             *)
Recognize ==
  /\ stage = "recognize" /\ Configured
  /\ TimePasses
  /\ first' \in Recognition /\ (first'.of = "ports") = ~ input.recognizer
  /\ IF ~ InTime THEN Excluded("timeout")
     ELSE IF first'.partial THEN Excluded("partial")
     ELSE Passes(IF input.recognizer THEN "mask" ELSE "masked")
  /\ UNCHANGED <<input, again, masked, coverage, context>>

(* map_recognized_detections *)
Located(recognition) == \A r \in Range(recognition.regions) : r.rect # NoRect
Mappable(recognition) == recognition.of = "this" /\ ~ recognition.partial /\ Located(recognition)
Detections(recognition) ==
  [i \in DOMAIN recognition.regions |->
     [kind |-> recognition.regions[i].kind,
      rect |-> MapNormalizedRect(recognition.regions[i].rect, input.size, input.orientation)]]

(* mask_image blackens a copy, and verify compares it with its proof. *)
Mask ==
  /\ stage = "mask"
  /\ TimePasses
  /\ IF ~ Mappable(first) \/ \E d \in Range(Detections(first)) : ~ ValidRect(d.rect, input.size)
     THEN Excluded("masking") /\ UNCHANGED <<masked, coverage>>
     ELSE LET found == Detections(first)
              image == MaskImage(Original, found)
          IN /\ masked' = image
             /\ coverage' = CoverageProof(image, found)
             /\ IF Verifies(CoverageProof(image, found), image, found)
                THEN Passes("rerun") ELSE Excluded("coverage")
  /\ UNCHANGED <<input, first, again, context>>

(* Plausible bug: a rerun that is partial or cannot be mapped finds nothing. *)
RerunLenient ==
  /\ stage = "rerun"
  /\ TimePasses
  /\ again' \in Recognition /\ again'.of # "ports"
  /\ IF Mappable(again') /\ Residual(coverage, Detections(again')) # {} THEN Excluded("coverage")
     ELSE Passes("masked")
  /\ UNCHANGED <<input, first, masked, coverage, context>>

(* The masked bytes are recognized again. *)
Rerun ==
  /\ stage = "rerun"
  /\ TimePasses
  /\ again' \in Recognition /\ again'.of # "ports"
  /\ IF ~ Mappable(again') THEN Excluded("masking")
     ELSE IF Residual(coverage, Detections(again')) # {} THEN Excluded("coverage")
     ELSE Passes("masked")
  /\ UNCHANGED <<input, first, masked, coverage, context>>

CheckMasking ==
  /\ stage = "masked"
  /\ IF elapsed <= Budget THEN Passes("sanitize") ELSE Excluded("timeout")
  /\ UNCHANGED <<input, elapsed, first, again, masked, coverage, context>>

(* sanitize_context stops at the first field that cannot be classified. *)
Sanitize ==
  /\ stage = "sanitize"
  /\ TimePasses
  /\ context' = SanitizeContext(input.context)
  /\ IF \E v \in Range(context') : v.error # "none" THEN Excluded("sanitization")
     ELSE IF ~ InTime THEN Excluded("timeout")
     ELSE Passes("finish")
  /\ UNCHANGED <<input, first, again, masked, coverage>>

Payload(image) == [how |-> "payload", at |-> stage, image |-> image, coverage |-> coverage, recall |-> Recall]

(* The proof is put together; the image goes along only if allowed. *)
Finish ==
  /\ stage = "finish"
  /\ TimePasses
  /\ IF ~ InTime THEN Excluded("timeout")
     ELSE result' = Payload(IF input.allowed THEN masked ELSE NoImage) /\ stage' = "done"
  /\ UNCHANGED <<input, first, again, masked, coverage, context>>

Init ==
  /\ input \in Inputs
  /\ stage = "recognize" /\ elapsed = 0
  /\ first = NoRecognition /\ again = NoRecognition
  /\ masked = NoImage /\ coverage = NoCoverage
  /\ context = <<>>
  /\ result = NoResult

Next == Misconfigured \/ RecognizeErr \/ Recognize \/ Mask \/ Rerun \/ CheckMasking \/ Sanitize \/ Finish

Spec == Init /\ [][Next]_vars

-----------------------------------------------------------------------------
(* Properties *)

Emitted == result.how = "payload"

Residue ==
  {d \in Range(Detections(first)) : \E e \in Range(Detections(again)) :
     d.kind = e.kind /\ Pixels(d.rect) \cap Pixels(e.rect) # {}}

(* A finding without extent lies at the pixel it begins with.              *)
Ground(r) == Pixels([r EXCEPT !.w = IF @ = 0 THEN 1 ELSE @, !.h = IF @ = 0 THEN 1 ELSE @])
Recovered ==
  {d \in Range(Detections(first)) : \E e \in Range(Detections(again)) :
     d.kind = e.kind /\ Pixels(d.rect) \cap Ground(e.rect) # {}}

(* The payload has an image exactly when its sending was allowed.  That    *)
(* image is the capture's own with every reported pixel black, and the     *)
(* second recognition of exactly these bytes has found none of the regions *)
(* again; only a finding on one of them excludes a capture for its         *)
(* coverage, since the masker and the verifier agree on the geometry.      *)
CoverageIsExact ==
  /\ Emitted =>
       /\ (result.image # NoImage) <=> input.allowed
       /\ (result.coverage # NoCoverage) <=> input.recognizer
  /\ Emitted /\ result.image # NoImage =>
       /\ result.image.of = "capture" /\ result.image.size = input.size
       /\ \A d \in Range(Detections(first)) : Pixels(d.rect) \subseteq result.image.black
       /\ result.coverage.hash = result.image /\ again.of = "this"
       /\ Residue = {}
  /\ result.how = "coverage" => result.at = "rerun" /\ Recovered # {}

(* Nothing is emitted past the deadline or on an incomplete recognition:   *)
(* both passes were whole, and each finding of an image could be placed;   *)
(* and no stage starts when the budget is already used up.                 *)
FailsClosed ==
  /\ stage \in {"mask", "sanitize", "finish"} => elapsed <= Budget
  /\ Emitted => /\ elapsed <= Budget
                /\ ~ first.partial /\ ~ again.partial
                /\ input.recognizer => Located(first) /\ Located(again)

(* The lines that bound a region in the oriented frame, from its upper     *)
(* left corner: exact sums, never rounded.                                 *)
Bounds(r, o) ==
  CASE o = "up" -> [left |-> r.x, right |-> r.x + r.w,
                    top |-> Grid - (r.y + r.h), bottom |-> Grid - r.y]
    [] o = "down" -> [left |-> Grid - (r.x + r.w), right |-> Grid - r.x,
                      top |-> r.y, bottom |-> r.y + r.h]
    [] o = "left" -> [left |-> r.y, right |-> r.y + r.h,
                      top |-> r.x, bottom |-> r.x + r.w]
    [] o = "right" -> [left |-> Grid - (r.y + r.h), right |-> Grid - r.y,
                       top |-> Grid - (r.x + r.w), bottom |-> Grid - r.x]

(* Pixel p of a side lies within n pixels of the lines from and to.        *)
Within(p, n, from, to, side) ==
  (p - n) * Grid < to * side /\ from * side < (p + n + 1) * Grid
Near(p, n, r) ==
  LET b == Bounds(r, input.orientation)
      f == Frame(input.size, input.orientation)
  IN Within(p[1], n, b.left, b.right, f.w) /\ Within(p[2], n, b.top, b.bottom, f.h)

(* Every pixel that a reported region touches is black in an image that is *)
(* sent: the pixel the masker adds on every side makes up for an edge that *)
(* f32 arithmetic has moved into the region, in each orientation.  And the *)
(* mask ends two pixels beyond the regions (recognize.rs:80-129,           *)
(* dilated_rect).                                                          *)
RegionsAreBlack ==
  Emitted /\ result.image # NoImage =>
    LET shown == Frameful(input.size) \cap Frameful(Frame(input.size, input.orientation))
        regions == {g.rect : g \in Range(first.regions)}
    IN /\ \A r \in regions :
            r.w > 0 /\ r.h > 0 => {p \in shown : Near(p, 0, r)} \subseteq result.image.black
       /\ \A p \in result.image.black : \E r \in regions : Near(p, 2, r)

(* What a field keeps holds no character of a token that looks sensitive,  *)
(* none of an assigned value, and neither number nor name of an address,   *)
(* however the findings overlap.  The host of a URL, all that sanitize_url *)
(* leaves of it and means to leave, is no such token.                      *)
SecretsAreReplaced ==
  \A v \in Range(context) :
    \A i \in DOMAIN v.text :
      LET span == TokenStart(v.text, i) .. TokenEnd(v.text, i) - 1
          t == v.text[i]
      IN /\ WholeClasses(t) # {} => span \cap v.kept = {}
         /\ \A c \in v.kept \cap span : c < TokenStart(v.text, i) + t.mark
         /\ Has(v.text, i, "digits") =>
              /\ Has(v.text, i + 1, "suffix") => span \cap v.kept = {}
              /\ Has(v.text, i + 2, "suffix") =>
                   v.kept \cap (TokenStart(v.text, i) .. TokenEnd(v.text, i + 1) - 1) = {}

=============================================================================
