---------------------------- MODULE TerminalFeed ----------------------------
(***************************************************************************)
(* The parser of Zaldros Terminal: Screen.feed and what it calls to cut a  *)
(* chunk of bytes (_escape, the CSI and OSC expressions, _decode_partial)  *)
(* of src/backend/zaldros_backend/terminal.py.  A byte is a member of a    *)
(* small alphabet, one per class the code tells apart; what a cut piece    *)
(* does to the screen is TerminalScreen's.                                 *)
(***************************************************************************)
EXTENDS Integers, SequencesExt

CONSTANTS
    Bytes,      \* the classes in use, of those below
    MaxChunk,   \* bytes one read returns
    MaxBytes    \* bytes of the whole stream

\* "end" is what stands after the last byte.
ASSUME FeedAssumption == "end" \notin Bytes /\ MaxChunk \in Nat

VARIABLES
    pending,    \* _pending
    out,        \* the pieces handled so far
    sent        \* the stream so far

\* "[" "\\" "]" and letters end a CSI; all of these are text outside a sequence.
Final == {"[", "\\", "]", "a"}
Param == {"1"}
Intermediate == {"/"}
Dropped == {"nul"}
Controls == {"bel", "nl"}
Lead == "lead"
Continuation == "cont"
Replacement == <<"fffd">>

TextBytes == Bytes \ ({"esc"} \cup Controls \cup Dropped)

At(d, i) == IF i \in DOMAIN d THEN d[i] ELSE "end"
After(d, n) == SubSeq(d, n + 1, Len(d))
\* The length of the run of bytes of S from place i of d.
RunIn(S, d, i) ==
    CHOOSE n \in 0 .. Len(d) - i + 1 : /\ \A k \in i .. i + n - 1 : d[k] \in S
                                     /\ At(d, i + n) \notin S

CsiLength(d) ==
    LET p == RunIn(Param, d, 3)
        end == 3 + p + RunIn(Intermediate, d, 3 + p)
    IN IF d[2] = "[" /\ At(d, end) \in Final THEN end ELSE 0
OscLength(d) ==
    LET end == 3 + RunIn(Bytes \ {"bel", "esc"}, d, 3)
    IN IF d[2] # "]" THEN 0
       ELSE IF At(d, end) = "bel" THEN end
       ELSE IF At(d, end) = "esc" /\ At(d, end + 1) = "\\" THEN end + 1 ELSE 0

\* _escape: bytes consumed at an ESC, 0 when the rest has to come first.
Escape(d) ==
    IF Len(d) = 1 THEN 0
    ELSE IF CsiLength(d) > 0 THEN CsiLength(d)
    ELSE IF OscLength(d) > 0 THEN OscLength(d)
    ELSE IF d[2] \in {"[", "]"} THEN 0 ELSE 2

\* bytes.decode(errors="replace"), for characters of one and of two bytes: what
\* is shown at the place of a byte, nothing at the second byte of a character.
Second(c, i) == c[i] = Continuation /\ At(c, i - 1) = Lead
CharAt(c, i) ==
    IF Second(c, i) THEN <<>>
    ELSE IF c[i] = Lead /\ At(c, i + 1) = Continuation THEN <<<<Lead, Continuation>>>>
    ELSE IF c[i] \in {Lead, Continuation, "bad"} THEN <<Replacement>>
    ELSE <<<<c[i]>>>>
Decoded(c) == FlattenSeq([i \in DOMAIN c |-> CharAt(c, i)])
Wrong(c, i) ==
    \/ c[i] = Lead /\ At(c, i + 1) # Continuation
    \/ c[i] = Continuation /\ ~Second(c, i)
    \/ c[i] = "bad"
\* Mutant: each read is decoded by itself.
DecodeAtOnce(c) == [text |-> Decoded(c), kept |-> <<>>]
\* Is the first error at the last byte?
DecodePartial(c) ==
    IF c # <<>> /\ Wrong(c, Len(c)) /\ \A i \in 1 .. Len(c) - 1 : ~Wrong(c, i)
    THEN [text |-> Decoded(Front(c)), kept |-> <<Last(c)>>]
    ELSE [text |-> Decoded(c), kept |-> <<>>]

\* One turn of feed's loop at the head of d: the bytes it takes, the pieces it
\* handles, and the bytes it holds over for the next read.
Taken(n, pieces) == [used |-> n, out |-> pieces, held |-> <<>>]
TextTurn(d) ==
    LET n == RunIn(TextBytes, d, 1)
        part == DecodePartial(SubSeq(d, 1, n))
    IN IF part.kept = <<>> THEN Taken(n, part.text)
       ELSE IF n = Len(d) THEN [used |-> n, out |-> part.text, held |-> part.kept]
       ELSE Taken(n, Append(part.text, Replacement))
Turn(d) ==
    IF d[1] = "esc" THEN
        IF Escape(d) = 0 THEN [used |-> Len(d), out |-> <<>>, held |-> d]
        ELSE Taken(Escape(d), <<SubSeq(d, 1, Escape(d))>>)
    ELSE IF d[1] \in Controls THEN Taken(1, <<<<d[1]>>>>)
    ELSE IF d[1] \in Dropped THEN Taken(1, <<>>)
    ELSE TextTurn(d)

\* feed: what is handled of d and what waits; a turn that holds bytes over is the last.
Before(pieces, rest) == [rest EXCEPT !.out = pieces \o @]
Parse[d \in Seq(Bytes)] ==
    IF d = <<>> THEN [out |-> <<>>, pending |-> <<>>]
    ELSE IF Turn(d).held # <<>> THEN [out |-> Turn(d).out, pending |-> Turn(d).held]
    ELSE Before(Turn(d).out, Parse[After(d, Turn(d).used)])

\* What a shell in a UTF-8 locale writes: a lead byte is followed by its
\* continuation, and no escape character stands before one.
Utf8(d) ==
    \A i \in DOMAIN d : /\ d[i] = Continuation <=> (i > 1 /\ d[i - 1] = Lead)
                        /\ d[i] = Lead => At(d, i - 1) # "esc"
                        /\ d[i] # "bad"

FeedInit == pending = <<>> /\ out = <<>> /\ sent = <<>>
PtyRead ==
    \E chunk \in UNION {[1 .. n -> Bytes] : n \in 1 .. MaxChunk} :
        LET r == Parse[pending \o chunk] IN
        /\ Len(sent) + Len(chunk) <= MaxBytes
        /\ Utf8(sent \o chunk)
        /\ pending' = r.pending
        /\ out' = out \o r.out
        /\ sent' = sent \o chunk
feedVars == <<pending, out, sent>>
FeedSpec == FeedInit /\ [][PtyRead]_feedVars

(* "A sequence split across two reads is held over, not mangled" (feed):   *)
(* however the pty cuts a UTF-8 stream into reads, the same pieces are     *)
(* handled as if it had come at once, and the same bytes wait.             *)
SplitReadsAreWhole ==
    out = Parse[sent].out /\ pending = Parse[sent].pending
=============================================================================
