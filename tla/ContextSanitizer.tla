--------------------------- MODULE ContextSanitizer ---------------------------
(***************************************************************************)
(* sanitize.rs and classes.rs of qaptr-privacy: what becomes of a text.    *)
(* A text is a sequence of tokens; a token has a length, the shapes the    *)
(* looks_like predicates see in it and, at offset mark, an assignment such *)
(* as password= (mark = len: none).  Positions count characters, one       *)
(* blank follows each token.                                               *)
(***************************************************************************)
EXTENDS Integers, SequencesExt

(* SensitiveClass, in the order of the enum. *)
Class == <<"email", "phone", "credential", "apikey", "card", "national", "address", "entropy">>
Rank(class) == CHOOSE i \in DOMAIN Class : Class[i] = class

(* Shapes of whole tokens; digits and suffix are the parts of an address.  *)
Shape == {"email", "phone", "card", "national", "apikey", "entropy", "digits", "suffix"}

(* A street's number is all digits, so it is no street's name.             *)
Token ==
  {t \in [len : Nat \ {0}, shapes : SUBSET Shape, mark : Nat, assigned : {"credential", "apikey"},
          url : {"no", "good", "bad"}, secrets : SUBSET {"userinfo", "query"}, control : BOOLEAN] :
     t.mark <= t.len /\ ~ {"digits", "suffix"} \subseteq t.shapes}

TokenStart(text, i) ==
  LET start[j \in DOMAIN text] == IF j = 1 THEN 1 ELSE start[j - 1] + text[j - 1].len + 1
  IN start[i]
TokenEnd(text, i) == TokenStart(text, i) + text[i].len

Finding(class, start, end) == [class |-> class, start |-> start, end |-> end]

(* A card is no phone number, an API key no high-entropy token. *)
WholeClasses(t) ==
  t.shapes \ ({"digits", "suffix"}
              \cup (IF "card" \in t.shapes THEN {"phone"} ELSE {})
              \cup (IF "apikey" \in t.shapes THEN {"entropy"} ELSE {}))

TokenFindings(text, i) ==
  {Finding(c, TokenStart(text, i), TokenEnd(text, i)) : c \in WholeClasses(text[i])}
  \cup (IF text[i].mark < text[i].len
        THEN {Finding(text[i].assigned, TokenStart(text, i) + text[i].mark, TokenEnd(text, i))}
        ELSE {})

Has(text, i, shape) == i \in DOMAIN text /\ shape \in text[i].shapes

(* "12 street" and "12 high street" *)
AddressFindings(text) ==
  {Finding("address", TokenStart(text, p[1]), TokenEnd(text, p[1] + p[2])) :
     p \in {q \in (DOMAIN text) \X {1, 2} :
             Has(text, q[1], "digits") /\ Has(text, q[1] + q[2], "suffix")}}

DetectFindings(text) == AddressFindings(text) \cup UNION {TokenFindings(text, i) : i \in DOMAIN text}

(* Plausible bug: of two findings that start together the shorter is first. *)
ShortestFirst(f, g) ==
  \/ f.start < g.start
  \/ f.start = g.start /\ f.end < g.end
  \/ f.start = g.start /\ f.end = g.end /\ Rank(f.class) < Rank(g.class)

(* By position, the longer first, then by class. *)
FindingOrder(f, g) ==
  \/ f.start < g.start
  \/ f.start = g.start /\ f.end > g.end
  \/ f.start = g.start /\ f.end = g.end /\ Rank(f.class) < Rank(g.class)

TextEnd(text) == IF text = <<>> THEN 1 ELSE TokenEnd(text, Len(text))

(* One step of replace_findings, which passes over a finding that starts   *)
(* in a replaced span.                                                     *)
Replace(f, w) ==
  IF f.start < w.cursor THEN w
  ELSE [cursor |-> f.end, placed |-> Append(w.placed, f.class),
        kept |-> w.kept \cup (w.cursor .. f.start - 1)]

Latest(findings) == CHOOSE f \in findings : \A g \in findings \ {f} : FindingOrder(g, f)

(* The findings in their order: the latest after all the others.           *)
ReplaceFindings(text, findings) ==
  LET walk == MapThenFoldSet(Replace, [cursor |-> 1, placed |-> <<>>, kept |-> {}],
                             LAMBDA f : f, Latest, findings)
  IN [placed |-> walk.placed, kept |-> walk.kept \cup (walk.cursor .. TextEnd(text) - 1)]

-----------------------------------------------------------------------------
(* Text of a field: a url token is an http URL, good or bad; what is left  *)
(* of it is its host, kept as it is, so a host counts as a plain word of   *)
(* one character (a host with the digits of a phone number is left out);   *)
(* its userinfo and query count as classes.                                *)

UrlClasses(t) == (IF "userinfo" \in t.secrets THEN {"credential"} ELSE {})
                 \cup (IF "query" \in t.secrets THEN {"apikey"} ELSE {})

Host(t) == [t EXCEPT !.len = 1, !.mark = 1, !.shapes = {}]

(* normalize_embedded_urls *)
NormalizeUrls(text) == [i \in DOMAIN text |-> IF text[i].url = "good" THEN Host(text[i]) ELSE text[i]]

UrlToken(text) == {i \in DOMAIN text : text[i].url # "no"}

Rejected(error) == [error |-> error, text |-> <<>>, placed |-> <<>>, kept |-> {}, classes |-> {}]

(* sanitize_text_field *)
SanitizeText(text) ==
  IF \E i \in DOMAIN text : text[i].control THEN Rejected("unsafe_text")
  ELSE IF \E i \in DOMAIN text : text[i].url = "bad" THEN Rejected("invalid_url")
  ELSE LET plain == NormalizeUrls(text)
           found == DetectFindings(plain)
           out == ReplaceFindings(plain, found)
       IN [error |-> "none", text |-> plain, placed |-> out.placed, kept |-> out.kept,
           classes |-> {f.class : f \in found} \cup UNION {UrlClasses(text[i]) : i \in UrlToken(text)}]

(* sanitize_url, for the browser host, which is read whole, as one token,  *)
(* and may be bare: nothing but scheme and host is left.                   *)
SanitizeUrl(text) ==
  IF \E i \in DOMAIN text : text[i].control THEN Rejected("unsafe_text")
  ELSE IF text = <<>> \/ \E i \in DOMAIN text : text[i].url = "bad" THEN Rejected("invalid_url")
  ELSE [error |-> "none", text |-> <<Host(text[1])>>, placed |-> <<>>, kept |-> {1},
        classes |-> UrlClasses(text[1])]

(* sanitize_context: each field a snapshot has, the browser's by its host. *)
SanitizeField(f) == IF f.field = "browser_host" THEN SanitizeUrl(f.text) ELSE SanitizeText(f.text)
SanitizeContext(context) == [i \in DOMAIN context |-> SanitizeField(context[i])]

=============================================================================
