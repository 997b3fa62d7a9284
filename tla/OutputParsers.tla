----------------------------- MODULE OutputParsers -----------------------------
(***************************************************************************)
(* The two parsers that a terminal's output goes through on its way into   *)
(* the scrollback ring (feedParsers in termsession.go): the tracker of the *)
(* modes an application has set (modes.go), which a client that attaches   *)
(* is told first, and the filter that keeps clipboard writes, OSC 52, out  *)
(* of the ring (oscfilter.go).                                             *)
(*                                                                         *)
(* A step is one byte, under the session's lock: since a client may attach *)
(* in every state, a state is the end of a chunk, wherever it may be cut.  *)
(* Bytes are their own names; of those that both parsers treat alike there *)
(* is one or two.  The ring loses nothing here: RingBuffer says that what  *)
(* it holds is the end of what is written to it.                           *)
(***************************************************************************)
EXTENDS Naturals, Sequences, SequencesExt

CONSTANTS MaxParams, MaxPrefix,  \* maxParams, maxOSCPrefix
          MaxSequences           \* bound: sequences written

VARIABLES
    doing,   \* the sequence being written, and how much of it is
    modes,   \* the modeTracker
    clip,    \* the clipboardFilter, with what it returns for the last byte
    ring,    \* what was written to the ring
    kept,    \* the finished sequences that are to be replayed
    meant,   \* the state that the finished sequences ask of a terminal
    sent     \* how many they are

vars == <<doing, modes, clip, ring, kept, meant, sent>>

Control == {"ESC", "BEL", "SO", "SI"}
Digit == {"0", "2", "4", "5", "7"}
Mark == {"?", ">", "="}
Intermediate == {" ", "(", ")"}

-----------------------------------------------------------------------------
(* The tracker.                                                            *)

\* decModeDefault and ansiModeDefault: autowrap, the alternate screen, insert.
Default == [k \in {<<"?", <<"7">>>>, <<"?", <<"4", "7">>>>, <<"none", <<"4">>>>} |-> k[2] = <<"7">>]
AltScreen == {<<"?", <<"4", "7">>>>}

\* newModeTracker; modes are those that differ from their default.
NewTracker ==
    [modes |-> {}, keypad |-> FALSE, charsets |-> [g \in 0..1 |-> <<>>], level |-> 0,
     region |-> <<>>, cursor |-> <<>>, keys |-> {}, at |-> "ground", params |-> <<>>, slot |-> 0]

\* strings.Split at ";", as a set.
Fields(s) ==
    LET cuts == {0, Len(s) + 1} \cup {i \in DOMAIN s : s[i] = ";"} IN
    {SubSeq(s, i + 1, Min({j \in cuts : j > i}) - 1) : i \in cuts \ {Len(s) + 1}}

\* Fault: of a list of modes only one alone is known.
ApplyModesOne(m, mark, params, on) ==
    LET named == {<<mark, params>>} \cap DOMAIN Default IN
    [m EXCEPT !.modes = {k \in @ \cup named : k \in named => Default[k] # on}]

\* applyModes.
ApplyModes(m, mark, params, on) ==
    LET named == {<<mark, f>> : f \in Fields(params)} \cap DOMAIN Default IN
    [m EXCEPT !.modes = {k \in @ \cup named : k \in named => Default[k] # on}]

\* Key-modifier resources: number;value.
SetKeys(m, params) ==
    LET end == Min({Len(params) + 1} \cup {i \in DOMAIN params : params[i] = ";"})
        resource == SubSeq(params, 1, end - 1)
        value == SubSeq(params, end + 1, Len(params))
    IN IF resource = <<>> THEN m
       ELSE [m EXCEPT !.keys = {k \in @ : k[1] # resource} \cup (IF value = <<>> THEN {} ELSE {<<resource, value>>})]

\* finishCSI.
FinishCSI(m, final) ==
    LET marked == m.params # <<>> /\ m.params[1] \in Mark
        mark == IF marked THEN m.params[1] ELSE "none"
        body == IF marked THEN Tail(m.params) ELSE m.params
        last == Max({0} \cup {i \in DOMAIN body : body[i] \notin Intermediate})
        params == SubSeq(body, 1, last)
        middle == SubSeq(body, last + 1, Len(body))
    IN CASE final \in {"h", "l"} /\ middle = <<>> -> ApplyModes(m, mark, params, final = "h")
         [] final = "r" /\ mark = "none" /\ middle = <<>> -> [m EXCEPT !.region = params]
         [] final = "q" /\ mark = "none" /\ middle = <<" ">> ->
                [m EXCEPT !.cursor = IF params = <<"0">> THEN <<>> ELSE params]
         [] final = "m" /\ mark = ">" -> SetKeys(m, params)
         [] OTHER -> m

At(m, s) == [m EXCEPT !.at = s]
Collect(m, b) == [m EXCEPT !.params = Append(@, b)]

\* After an ESC.
InEscape(m, b) ==
    CASE b = "[" -> [At(m, "csi") EXCEPT !.params = <<>>]
      [] b \in {"]", "P"} -> At(m, "string")
      [] b \in {"=", ">"} -> [At(m, "ground") EXCEPT !.keypad = b = "="]
      [] b = "ESC" -> m
      [] b \in {"(", ")"} -> [At(m, "charset") EXCEPT !.slot = IF b = "(" THEN 0 ELSE 1, !.params = <<b>>]
      [] OTHER -> [At(m, "ground") EXCEPT !.level = CASE b = "n" -> 2 [] b = "o" -> 3 [] OTHER -> @]

\* In the designation of a character set.
InCharset(m, b) ==
    LET c == Collect(m, b) IN
    IF b \notin Control \cup Intermediate THEN [At(c, "ground") EXCEPT !.charsets[m.slot] = c.params]
    ELSE IF Len(c.params) >= MaxParams THEN At(c, "ground") ELSE c

\* In the parameters of a CSI.
InCSI(m, b) ==
    IF b \notin Control \cup Digit \cup Mark \cup Intermediate \cup {";"} THEN At(FinishCSI(m, b), "ground")
    ELSE IF Len(m.params) >= MaxParams THEN At(m, "ground") ELSE Collect(m, b)

\* Fault: the payload of a string is scanned.
InStringScanned(m, b) ==
    CASE b = "BEL" -> At(m, "ground") [] b = "ESC" -> At(m, "stringEsc")
      [] b = "SO" -> [m EXCEPT !.level = 1] [] OTHER -> m

\* In the payload of an OSC or DCS.
InString(m, b) ==
    CASE b = "BEL" -> At(m, "ground") [] b = "ESC" -> At(m, "stringEsc") [] OTHER -> m

\* Feed, one byte.
Feed(m, b) ==
    CASE m.at = "ground" ->
            (CASE b = "ESC" -> At(m, "escape") [] b = "SO" -> [m EXCEPT !.level = 1]
               [] b = "SI" -> [m EXCEPT !.level = 0] [] OTHER -> m)
      [] m.at = "escape" -> InEscape(m, b)
      [] m.at = "charset" -> InCharset(m, b)
      [] m.at = "csi" -> InCSI(m, b)
      [] m.at = "string" -> InString(m, b)
      [] m.at = "stringEsc" -> At(m, IF b = "ST" THEN "ground" ELSE "string")

Setting(k) ==
    <<"ESC", "[">> \o (IF k[1] = "?" THEN <<"?">> ELSE <<>>) \o k[2] \o <<IF Default[k] THEN "l" ELSE "h">>

\* Fault: the locking shifts that are not SO are forgotten.
LockingShiftSO(m) == IF m.level = 1 THEN <<"SO">> ELSE <<>>

\* lockingShiftSequence.
LockingShift(m) ==
    CASE m.level = 1 -> <<"SO">> [] m.level = 2 -> <<"ESC", "n">> [] m.level = 3 -> <<"ESC", "o">> [] OTHER -> <<>>

\* Preamble: the alternate screen first.
Preamble(m) ==
    FlattenSeq(SetToSeq({Setting(k) : k \in m.modes \cap AltScreen})
               \o SetToSeq({Setting(k) : k \in m.modes \ AltScreen}))
    \o (IF m.keypad THEN <<"ESC", "=">> ELSE <<>>)
    \o FlattenSeq([g \in 1..2 |-> IF m.charsets[g - 1] = <<>> THEN <<>> ELSE <<"ESC">> \o m.charsets[g - 1]])
    \o LockingShift(m)
    \o FlattenSeq(SetToSeq({<<"ESC", "[", ">">> \o k[1] \o <<";">> \o k[2] \o <<"m">> : k \in m.keys}))
    \o (IF m.region = <<>> THEN <<>> ELSE <<"ESC", "[">> \o m.region \o <<"r">>)
    \o (IF m.cursor = <<>> THEN <<>> ELSE <<"ESC", "[">> \o m.cursor \o <<" ", "q">>)

-----------------------------------------------------------------------------
(* The filter.                                                             *)

Filtered(at, prefix, emit) == [at |-> at, prefix |-> prefix, emit |-> emit]
NewFilter == Filtered("ground", <<>>, <<>>)

\* flushPrefix.
Flush(f) == <<"ESC", "]">> \o f.prefix

\* Fault: every identifier that begins with 52.
IsClipboardPrefix(f) == Len(f.prefix) >= 2 /\ SubSeq(f.prefix, 1, 2) = <<"5", "2">>

\* isClipboard.
IsClipboard(f) == f.prefix = <<"5", "2">>

\* After an ESC, which was held back.
FilterEscape(f, b) ==
    CASE b = "]" -> Filtered("prefix", <<>>, <<>>)
      [] b = "ESC" -> Filtered("escape", f.prefix, <<"ESC">>)
      [] b = "P" -> Filtered("pass", f.prefix, <<"ESC", b>>)
      [] OTHER -> Filtered("ground", f.prefix, <<"ESC", b>>)

\* In the identifier of an OSC, held back with its introducer.
FilterPrefix(f, b) ==
    IF b \in {";", "BEL", "ESC"} /\ IsClipboard(f)
      THEN Filtered(CASE b = ";" -> "drop" [] b = "ESC" -> "dropEsc" [] OTHER -> "ground", f.prefix, <<>>)
    ELSE IF b \in Digit /\ Len(f.prefix) < MaxPrefix
      THEN Filtered("prefix", Append(f.prefix, b), <<>>)
    ELSE Filtered(CASE b = "BEL" -> "ground" [] b = "ESC" -> "passEsc" [] OTHER -> "pass", f.prefix, Flush(f) \o <<b>>)

\* In a string, dropped or passed, maybe after an ESC in it.
FilterString(f, b) ==
    LET pass == f.at \in {"pass", "passEsc"}
        inEsc == f.at \in {"dropEsc", "passEsc"}
    IN Filtered(CASE (inEsc /\ b = "ST") \/ (~inEsc /\ b = "BEL") -> "ground"
                  [] ~inEsc /\ b = "ESC" -> IF pass THEN "passEsc" ELSE "dropEsc"
                  [] OTHER -> IF pass THEN "pass" ELSE "drop",
                f.prefix, IF pass THEN <<b>> ELSE <<>>)

\* Filter, one byte; a chunk without an ESC, read at ground, goes the same way.
Filter(f, b) ==
    CASE f.at = "ground" -> IF b = "ESC" THEN Filtered("escape", f.prefix, <<>>) ELSE Filtered("ground", f.prefix, <<b>>)
      [] f.at = "escape" -> FilterEscape(f, b)
      [] f.at = "prefix" -> FilterPrefix(f, b)
      [] OTHER -> FilterString(f, b)

-----------------------------------------------------------------------------
(* What applications write: sequences that are complete, what each asks of *)
(* a terminal, and whether it is a clipboard write.                        *)

Plain(bytes) == [bytes |-> bytes, asks |-> <<>>, clip |-> FALSE]
Ask(bytes, asks) == [bytes |-> bytes, asks |-> asks, clip |-> FALSE]
Clip(bytes) == [bytes |-> bytes, asks |-> <<>>, clip |-> TRUE]
CSI(params, final) == <<"ESC", "[">> \o params \o <<final>>
OSC(payload) == <<"ESC", "]">> \o payload
ST == <<"ESC", "ST">>

Written ==
    {Plain(<<"a">>), Plain(CSI(<<"2">>, "m")), Plain(CSI(<<"?", "5">>, "h")),
     Plain(OSC(<<"7", ";", "SO", "BEL">>)), Plain(OSC(<<"5", ";", "a">>) \o ST), Plain(OSC(<<"BEL">>)),
     Plain(OSC(<<"5", "2", "7", ";", "a", "BEL">>)), Plain(OSC(<<"7", "5", "2">>) \o ST),
     Plain(OSC(<<"a", ";", "5", "2", "BEL">>)), Plain(<<"ESC", "P", "]", "5", "2", ";">> \o ST),
     Plain(OSC([i \in 1..(MaxPrefix + 1) |-> "5"] \o <<";", "BEL">>)),
     Plain(CSI([i \in 1..(MaxParams + 1) |-> "2"], "h")),
     Clip(OSC(<<"5", "2", ";", "a", "BEL">>)), Clip(OSC(<<"5", "2", ";", "SO">>) \o ST),
     Clip(OSC(<<"5", "2", "BEL">>)), Clip(OSC(<<"5", "2">>) \o ST),
     Ask(CSI(<<"?", "7">>, "l"), [wrap |-> FALSE]), Ask(CSI(<<"?", "4", "7">>, "h"), [alt |-> TRUE]),
     Ask(CSI(<<"?", "7", ";", "4", "7">>, "h"), [wrap |-> TRUE, alt |-> TRUE]),
     Ask(CSI(<<"?", "4", "7", ";", "7">>, "l"), [wrap |-> FALSE, alt |-> FALSE]),
     Ask(CSI(<<"4">>, "h"), [insert |-> TRUE]), Ask(CSI(<<"4">>, "l"), [insert |-> FALSE]),
     Ask(<<"ESC", "=">>, [keypad |-> TRUE]), Ask(<<"ESC", ">">>, [keypad |-> FALSE]),
     Ask(<<"ESC", "(", "0">>, [g0 |-> <<"(", "0">>]), Ask(<<"ESC", ")", " ", "5">>, [g1 |-> <<")", " ", "5">>]),
     Ask(<<"SO">>, [level |-> 1]), Ask(<<"SI">>, [level |-> 0]), Ask(<<"ESC", "n">>, [level |-> 2]),
     Ask(CSI(<<"2", ";", "5">>, "r"), [region |-> <<"2", ";", "5">>]), Ask(CSI(<<>>, "r"), [region |-> <<>>]),
     Ask(CSI(<<"2", " ">>, "q"), [cursor |-> <<"2">>]), Ask(CSI(<<"0", " ">>, "q"), [cursor |-> <<>>]),
     Ask(CSI(<<">", "4", ";", "2">>, "m"), [keys |-> {<<<<"4">>, <<"2">>>>}]), Ask(CSI(<<">", "4", ";">>, "m"), [keys |-> {}])}

Nothing == [bytes |-> <<>>, asks |-> <<>>, clip |-> FALSE, at |-> 0]

PowerOn ==
    [wrap |-> TRUE, alt |-> FALSE, insert |-> FALSE, keypad |-> FALSE, g0 |-> <<>>, g1 |-> <<>>, level |-> 0,
     region |-> <<>>, cursor |-> <<>>, keys |-> {}]

Init ==
    /\ doing = Nothing /\ sent = 0
    /\ modes = NewTracker /\ clip = NewFilter /\ ring = <<>>
    /\ kept = <<>> /\ meant = PowerOn

\* An application begins to write.
Begin(s) ==
    /\ doing = Nothing /\ sent < MaxSequences
    /\ doing' = [bytes |-> s.bytes, asks |-> s.asks, clip |-> s.clip, at |-> 0]
    /\ sent' = sent + 1
    /\ UNCHANGED <<modes, clip, ring, kept, meant>>

\* feedParsers, for one byte.
Pump ==
    /\ doing # Nothing
    /\ LET b == doing.bytes[doing.at + 1] IN
       /\ clip' = Filter(clip, b)
       /\ modes' = Feed(modes, b)
       /\ ring' = ring \o clip'.emit
    /\ IF doing.at + 1 < Len(doing.bytes)
         THEN doing' = [doing EXCEPT !.at = @ + 1] /\ UNCHANGED <<kept, meant>>
         ELSE /\ doing' = Nothing
              /\ kept' = IF doing.clip THEN kept ELSE Append(kept, doing.bytes)
              /\ meant' = [x \in DOMAIN meant |-> IF x \in DOMAIN doing.asks THEN doing.asks[x] ELSE meant[x]]
    /\ UNCHANGED sent

Next == Pump \/ \E s \in Written : Begin(s)

Spec == Init /\ [][Next]_vars

-----------------------------------------------------------------------------
\* Types of the variables.
TypeOK ==
    /\ doing.at \in 0..Len(doing.bytes) /\ sent \in 0..MaxSequences
    /\ modes.modes \subseteq DOMAIN Default /\ modes.level \in 0..3 /\ Len(modes.params) <= MaxParams
    /\ modes.at \in {"ground", "escape", "charset", "csi", "string", "stringEsc"}
    /\ clip.at \in {"ground", "escape", "prefix", "drop", "dropEsc", "pass", "passEsc"}
    /\ Len(clip.prefix) <= MaxPrefix

\* What the filter holds back at the end of a chunk.
Held == CASE clip.at = "escape" -> <<"ESC">> [] clip.at = "prefix" -> Flush(clip) [] OTHER -> <<>>

\* The ring has every byte of the output but those of clipboard writes and
\* those held back, wherever the chunks are cut: nothing a terminal would draw
\* is lost with a clipboard write, and no part of one is left to be replayed.
RingIsOutput ==
    IF doing.clip THEN ring = FlattenSeq(kept)
    ELSE ring \o Held = FlattenSeq(kept) \o SubSeq(doing.bytes, 1, doing.at)

Sticky(m) ==
    [wrap |-> <<"?", <<"7">>>> \notin m.modes, alt |-> <<"?", <<"4", "7">>>> \in m.modes,
     insert |-> <<"none", <<"4">>>> \in m.modes, keypad |-> m.keypad, g0 |-> m.charsets[0], g1 |-> m.charsets[1],
     level |-> m.level, region |-> m.region, cursor |-> m.cursor, keys |-> m.keys]

\* A client that attaches between any two bytes is brought into the state that
\* the sequences finished by then ask for, by the preamble and what it is
\* replayed, from whichever sequence on the ring still has it: settings that
\* are replayed once more undo nothing.
Restored ==
    \A i \in 0..Len(kept) :
        LET replay == SubSeq(ring, Len(FlattenSeq(SubSeq(kept, 1, i))) + 1, Len(ring)) IN
        Sticky(FoldLeft(Feed, NewTracker, Preamble(modes) \o replay)) = meant
================================================================================
