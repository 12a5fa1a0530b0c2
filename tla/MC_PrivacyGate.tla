---------------------------- MODULE MC_PrivacyGate ----------------------------
(***************************************************************************)
(* TLC instance of PrivacyGate: images of 3 x 2 and 3 x 3 in all four      *)
(* orientations, floats with five bits of significand down to 1/128, and   *)
(* texts of up to four tokens.                                             *)
(***************************************************************************)
EXTENDS PrivacyGate

CONSTANTS noimage, norect

T(shapes, mark, assigned) ==
  [len |-> 3, shapes |-> shapes, mark |-> mark, assigned |-> assigned,
   url |-> "no", secrets |-> {}, control |-> FALSE]
Word == T({}, 3, "apikey")
Url(verdict, secrets) == [Word EXCEPT !.url = verdict, !.secrets = secrets]

Digits == T({"digits"}, 3, "apikey")
Suffix == T({"suffix"}, 3, "apikey")
Card == T({"digits", "card"}, 3, "apikey")
Tokens ==
  { Word, Digits, Suffix, Card, T({"email"}, 3, "apikey"), T({"entropy"}, 1, "credential"),
    T({"apikey", "entropy"}, 0, "apikey"), Url("good", {"userinfo", "query"}) }

Texts == UNION {[1..n -> Tokens] : n \in 0..2} \cup [1..3 -> {Word, Suffix, Card}]
         \cup [1..4 -> {Digits, Suffix}]
Odd == { <<Word, Url("bad", {})>>, <<[Word EXCEPT !.control = TRUE]>> }

R(x, y, w, h) == [x |-> x, y |-> y, w |-> w, h |-> h]
P(kind, rect) == [kind |-> kind, rect |-> rect]

MCSpacings == {1, 2, 4, 8, 16, 32, 64, 128, 256}

(* 3 * 42 and 3 * 86 lie beside a pixel's border and are rounded onto it.  *)
MCReports ==
  { <<>>,
    <<P("text", R(0, 0, 32, 32))>>,
    <<P("text", R(32, 64, 64, 32)), P("face", R(64, 0, 64, 128))>>,
    <<P("face", R(42, 42, 26, 44))>>,
    <<P("text", R(31, 56, 13, 30)), P("text", R(72, 3, 56, 15))>>,
    <<P("text", R(64, 64, 0, 64))>>,
    <<P("face", R(52, 64, 32, 0))>>,
    <<P("text", R(96, 96, 32, 32)), P("barcode", NoRect)>> }

Labels == << P("text", R(0, 0, 2, 2)), P("text", R(1, 0, 2, 2)), P("face", R(0, 0, 2, 2)) >>
Corpora ==
  { [labels |-> Labels, found |-> found, threshold |-> t] :
      found \in { << >>, <<P("text", R(0, 0, 3, 2))>>,
                  <<P("text", R(1, 0, 2, 2)), P("text", R(0, 0, 2, 2)), P("face", R(1, 1, 2, 2))>>,
                  <<P("text", R(0, 0, 2, 1)), P("text", R(0, 0, 2, 2))>> },
      t \in {<<0, 1>>, <<1, 2>>, <<1, 1>>} }
OneCorpus == [labels |-> << >>, found |-> << >>, threshold |-> <<1, 2>>]

Input(image, allowed, recognizer, o, size, fields, corpus) ==
  [image |-> image, allowed |-> allowed, recognizer |-> recognizer, orientation |-> o,
   size |-> size, context |-> fields, corpus |-> corpus]
F(field, text) == [field |-> field, text |-> text]
Wide == [w |-> 3, h |-> 2]
Plain == << F("application", <<Word>>), F("browser_host", <<Url("good", {})>>) >>

MCInputs ==
  { Input(FALSE, FALSE, FALSE, "up", Wide, <<F("window_title", text)>>, OneCorpus) : text \in Texts \cup Odd }
  \cup { Input(FALSE, FALSE, FALSE, "up", Wide, <<F("browser_host", text)>>, OneCorpus) :
           text \in { << >>, <<Url("bad", {})>>, <<Url("good", {"userinfo"})>>,
                     <<[T({"email"}, 3, "apikey") EXCEPT !.secrets = {"userinfo"}]>> } }
  \cup { Input(FALSE, FALSE, FALSE, "up", Wide, Plain, corpus) : corpus \in Corpora }
  \cup { Input(image, allowed, recognizer, o, size, Plain, OneCorpus) :
           image \in BOOLEAN, allowed \in BOOLEAN, recognizer \in BOOLEAN, o \in Orientation,
           size \in {Wide, [w |-> 3, h |-> 3]} }

=============================================================================
