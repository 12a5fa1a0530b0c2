----------------------------- MODULE VaultBridge -----------------------------
(***************************************************************************)
(* The way of a capture into the vault: the C bridge of qaptr-ffi with its *)
(* error text, the exclusion rules of qaptr-policy, and the manifest that  *)
(* qaptr-vault writes and parses.  What the vault does with a seal is      *)
(* modelled in BundleVault; here it succeeds or fails.                     *)
(***************************************************************************)
EXTENDS Integers, Sequences

CONSTANTS
    Unset,        \* an absent optional value
    Refused,      \* an error instead of a value
    Application,  \* applications, and
    Window,       \* window titles a context may name
    Character,    \* the characters of identifiers, none of them "=",
    Identifiers,  \* identifiers made of them, and
    Millis,       \* times in milliseconds since 1970, digit by digit
    KeyLength     \* KeyLength[g]: bytes of the public key of generation g

Digits == {"0", "1", "2", "3", "4", "5", "6", "7", "8", "9"}
CR == "CR"                                    \* the carriage return

(* An identifier is the sequence of its lines, a line the sequence of its  *)
(* characters.                                                             *)
ASSUME BridgeAssumption ==
    /\ Identifiers \subseteq Seq(Seq(Character))
    /\ <<>> \notin Identifiers /\ <<<<>>>> \notin Identifiers
    /\ Millis \subseteq Seq(Digits) /\ <<>> \notin Millis

VARIABLES
    handle,       \* the handle is null or live
    last_error,   \* QaptrVault.last_error, by its cause
    keys,         \* generations whose public-key file is there
    outcome,      \* what the last call returned
    buffer,       \* what the last call wrote into the caller's buffer
    rules,        \* ExclusionRules
    decision,     \* what seal_if_allowed answered
    sealed        \* the bundle it has sealed last: [metadata, manifest]
bridgeVars == <<handle, last_error, keys, outcome, buffer, rules, decision, sealed>>

-----------------------------------------------------------------------------
(* bundle.rs: a manifest is the sequence of its lines, each ended by a     *)
(* newline.  A time may have more than its milliseconds; only they are     *)
(* written.                                                                *)

FormatVersion == <<"2">>
Keys == {"version", "capture_id", "generation_id", "captured_at_ms"}
NoTime == [ms |-> <<>>, beyond |-> FALSE]         \* before 1970
Moment == [ms : Millis, beyond : BOOLEAN]
NoBundle == [metadata |-> Unset, manifest |-> <<>>]

KeyValue(key, value) == [key |-> key, value |-> value]
Bare(text) == [key |-> "no key", value |-> text]       \* a line without "="
Identified(key, id) ==
    <<KeyValue(key, Head(id))>> \o [i \in 1 .. Len(id) - 1 |-> Bare(id[i + 1])]

Manifest(capture_id, generation_id, captured_at) ==
    IF captured_at = NoTime THEN Refused
    ELSE <<KeyValue("version", FormatVersion)>> \o Identified("capture_id", capture_id)
         \o Identified("generation_id", generation_id)
         \o <<KeyValue("captured_at_ms", captured_at.ms)>>

(* str::lines takes the newline off a line, and a carriage return before   *)
(* it; of the text after the last newline, the rest, it takes nothing.     *)
EndsInCR(text) == text # <<>> /\ text[Len(text)] = CR
Stripped(line) ==
    IF EndsInCR(line.value)
    THEN KeyValue(line.key, SubSeq(line.value, 1, Len(line.value) - 1)) ELSE line
Lines(whole, rest) == [i \in DOMAIN whole |-> Stripped(whole[i])] \o rest

(* The rests that a cut within a line leaves: none, a part of its key, or  *)
(* the key with a part of the value.                                       *)
Rests(line) ==
    {<<>>, <<Bare(<<"part of a key">>)>>}
    \cup {<<KeyValue(line.key, SubSeq(line.value, 1, n))>> : n \in 0 .. Len(line.value)}

(* The value of a key, if it has one: that of its last line, also when it  *)
(* does not parse.                                                         *)
Given(lines, key) ==
    {lines[i].value : i \in {j \in DOMAIN lines :
        lines[j].key = key /\ \A k \in DOMAIN lines : lines[k].key = key => k <= j}}
IsNumeral(text) == text # <<>> /\ \A i \in DOMAIN text : text[i] \in Digits
Parsed(generation_id, captured_at, expected) ==
    [capture_id |-> expected, generation_id |-> <<generation_id>>,
     captured_at |-> [ms |-> captured_at, beyond |-> FALSE]]

FromManifestUntimed(lines, expected) ==
    IF /\ \A i \in DOMAIN lines : lines[i].key \in Keys
       /\ Given(lines, "version") = {FormatVersion}
       /\ {<<id>> : id \in Given(lines, "capture_id")} = {expected}
       /\ \E g \in Given(lines, "generation_id") : g # <<>>
    THEN Parsed(CHOOSE g \in Given(lines, "generation_id") : TRUE, <<"0">>, expected)
    ELSE Refused
FromManifest(lines, expected) ==
    IF /\ \A i \in DOMAIN lines : lines[i].key \in Keys
       /\ Given(lines, "version") = {FormatVersion}
       /\ {<<id>> : id \in Given(lines, "capture_id")} = {expected}
       /\ \E g \in Given(lines, "generation_id") : g # <<>>
       /\ \E ms \in Given(lines, "captured_at_ms") : IsNumeral(ms)
    THEN Parsed(CHOOSE g \in Given(lines, "generation_id") : TRUE,
                CHOOSE ms \in Given(lines, "captured_at_ms") : TRUE, expected)
    ELSE Refused

-----------------------------------------------------------------------------
(* qaptr-ffi.                                                              *)

Failed(code, cause) == outcome' = code /\ last_error' = cause
OnNull(code) == outcome' = code /\ UNCHANGED last_error
Cleared == last_error' = "none"
NotWritten == buffer' = "untouched"
Untouched == UNCHANGED <<keys, rules, decision, sealed>>

CreateSucceeds ==
    /\ handle = "null" /\ handle' = "live"
    /\ Cleared /\ outcome' = 0 /\ NotWritten /\ Untouched
CreateFails ==
    /\ handle = "null"
    /\ OnNull(-1) /\ NotWritten /\ UNCHANGED handle /\ Untouched
Destroy ==
    /\ handle' = "null"
    /\ Cleared /\ outcome' = 0 /\ NotWritten /\ Untouched

(* copy_string answers the size it needs, and writes nothing into less.    *)
CopyString(text, length, capacity) ==
    /\ outcome' = length + 1
    /\ buffer' = IF capacity >= length + 1 THEN text ELSE "untouched"
    /\ UNCHANGED last_error

PublicKeyFault(generation) ==
    IF generation \in DOMAIN KeyLength
    THEN IF generation \in keys THEN "none" ELSE "key file"
    ELSE generation
PublicKey(generation, capacity) ==
    /\ \/ handle = "null" /\ OnNull(0) /\ NotWritten
       \/ /\ handle = "live" /\ PublicKeyFault(generation) # "none"
          /\ Failed(0, PublicKeyFault(generation)) /\ NotWritten
       \/ /\ handle = "live" /\ PublicKeyFault(generation) = "none"
          /\ CopyString("key", KeyLength[generation], capacity)
    /\ UNCHANGED handle /\ Untouched

(* The inputs are looked at one after the other; the first fault is told.  *)
SealChecks ==
    <<"capture id utf-8", "generation utf-8", "public key utf-8", "image pointer",
      "context pointer", "timestamp", "capture id", "generation id", "public key", "vault">>
FirstFault(faults) ==
    SealChecks[CHOOSE i \in DOMAIN SealChecks :
                 /\ SealChecks[i] \in faults
                 /\ \A j \in 1 .. i - 1 : SealChecks[j] \notin faults]
Seal(faults) ==
    /\ \/ handle = "null" /\ OnNull(-1)
       \/ handle = "live" /\ faults # {} /\ Failed(-1, FirstFault(faults))
       \/ handle = "live" /\ faults = {} /\ outcome' = 0 /\ Cleared
    /\ NotWritten /\ UNCHANGED handle /\ Untouched

LastError(capacity) ==
    /\ \/ handle = "null" /\ OnNull(0) /\ NotWritten
       \/ handle = "live" /\ CopyString("error", IF last_error = "none" THEN 0 ELSE 1, capacity)
    /\ UNCHANGED handle /\ Untouched

(* The review app rotates and retires generations.                         *)
KeyFile(generation) ==
    /\ keys' \in {keys \cup {generation}, keys \ {generation}}
    /\ UNCHANGED <<handle, last_error, outcome, buffer, rules, decision, sealed>>

-----------------------------------------------------------------------------
(* exclusions.rs                                                           *)

Exclude(kind, name) ==
    /\ rules' = [rules EXCEPT ![kind] = @ \cup {name}]
    /\ UNCHANGED <<handle, last_error, keys, outcome, buffer, decision, sealed>>
Reason(application, window) ==
    CASE application \in rules.applications -> "Application"
      [] application \notin rules.applications /\ window \in rules.windows -> "Window"
      [] OTHER -> Unset
SealIfAllowed(application, window, metadata) ==
    LET manifest == Manifest(metadata.capture_id, metadata.generation_id, metadata.captured_at)
    IN  \/ /\ Reason(application, window) # Unset
           /\ decision' = Reason(application, window) /\ UNCHANGED sealed
        \/ /\ Reason(application, window) = Unset /\ manifest # Refused
           /\ decision' = "Sealed" /\ sealed' = [metadata |-> metadata, manifest |-> manifest]
        \/ /\ Reason(application, window) = Unset
           /\ decision' = "vault error" /\ UNCHANGED sealed
    /\ UNCHANGED <<handle, last_error, keys, outcome, buffer, rules>>

-----------------------------------------------------------------------------
BridgeInit ==
    /\ handle = "null" /\ last_error = "none" /\ keys = {}
    /\ outcome = 0 /\ buffer = "untouched"
    /\ rules = [applications |-> {}, windows |-> {}] /\ decision = "none"
    /\ sealed = NoBundle

Metadata == [capture_id : Identifiers, generation_id : Identifiers,
             captured_at : Moment \cup {NoTime}]
SomeFaults == {{}, {"vault"}, {"timestamp", "vault"}, {"capture id utf-8", "public key"}}
BridgeNext ==
    \/ CreateSucceeds \/ CreateFails \/ Destroy
    \/ \E g \in DOMAIN KeyLength \cup {"generation id", "generation utf-8"}, n \in 0 .. 4 :
          PublicKey(g, n)
    \/ \E faults \in SomeFaults : Seal(faults)
    \/ \E n \in 0 .. 2 : LastError(n)
    \/ \E g \in DOMAIN KeyLength : KeyFile(g)
SealingNext ==
    \/ \E a \in Application : Exclude("applications", a)
    \/ \E w \in Window : Exclude("windows", w)
    \/ \E a \in Application \cup {Unset}, w \in Window \cup {Unset}, m \in Metadata :
          SealIfAllowed(a, w, m)
BridgeSpec == BridgeInit /\ [][BridgeNext \/ SealingNext]_bridgeVars

-----------------------------------------------------------------------------
(* The manifest of a bundle whose identifiers are of one line that ends in *)
(* no carriage return reads as what was sealed, to the millisecond, for    *)
(* the capture it belongs to and for no other.  One that was cut anywhere  *)
(* is refused, or all but its time is still right: a part of the digits    *)
(* reads as an earlier time (bundle.rs:78-137).                            *)
OneLine(id) == Len(id) = 1 /\ ~EndsInCR(id[1])
AtMillis(metadata, ms) ==
    [capture_id |-> metadata.capture_id, generation_id |-> metadata.generation_id,
     captured_at |-> [ms |-> ms, beyond |-> FALSE]]
WholeReadsAsSealed(metadata, manifest) ==
    \A expected \in Identifiers :
        FromManifest(Lines(manifest, <<>>), expected) =
            IF expected = metadata.capture_id THEN AtMillis(metadata, metadata.captured_at.ms)
            ELSE Refused
TornIsRefusedOrEarlier(metadata, manifest) ==
    \A expected \in Identifiers, whole \in 0 .. Len(manifest) - 1 :
        \A rest \in Rests(manifest[whole + 1]) :
            LET read == FromManifest(Lines(SubSeq(manifest, 1, whole), rest), expected)
            IN  read # Refused =>
                    /\ expected = metadata.capture_id
                    /\ \E n \in 1 .. Len(metadata.captured_at.ms) :
                          read = AtMillis(metadata, SubSeq(metadata.captured_at.ms, 1, n))
ManifestIsFaithful ==
    sealed # NoBundle /\ OneLine(sealed.metadata.capture_id)
                      /\ OneLine(sealed.metadata.generation_id) =>
        /\ WholeReadsAsSealed(sealed.metadata, sealed.manifest)
        /\ TornIsRefusedOrEarlier(sealed.metadata, sealed.manifest)
=============================================================================
