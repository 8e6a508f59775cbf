------------------------------ MODULE Clipboard ------------------------------
(* Win+V: the history (clipboard.History), the file its pinned entries are  *)
(* kept in, and the model that listens to the system's clipboard.  A text   *)
(* is identified by itself; an image is written to a new file on every      *)
(* capture, and identified by that file.                                    *)
EXTENDS Naturals, Sequences, SequencesExt

CONSTANTS ClipTexts,   \* the texts that can be copied; BlankText is one of white space
          BlankText,
          Limit,       \* MAX_ENTRIES
          MaxImages    \* bound on the files of images

ASSUME LimitIsNat == Limit \in Nat

VARIABLES clips,     \* the history, newest first: [key, pinned]
          kept,        \* clipboard-pinned.json: keys, newest first
          clip,        \* what the clipboard holds
          images,      \* files of images written so far
          recording    \* the switch «Журнал буфера обмена», read on every capture

clipVars == <<clips, kept, clip, images, recording>>

Picture == "picture"
Image(n) == <<"clip", n>>

\* _trim: the oldest unpinned entry goes until the history fits.
Trim(h) == IF Len(h) <= Limit \/ \A i \in DOMAIN h : h[i].pinned THEN h
           ELSE RemoveAt(h, CHOOSE i \in DOMAIN h : /\ ~h[i].pinned
                                                    /\ \A j \in i + 1 .. Len(h) : h[j].pinned)
\* _add: a copy of what is there moves to the top and keeps its pin.
Added(h, k) ==
    IF \E i \in DOMAIN h : h[i].key = k
    THEN LET i == CHOOSE i \in DOMAIN h : h[i].key = k
         IN <<h[i]>> \o RemoveAt(h, i)
    ELSE Trim(<<[key |-> k, pinned |-> FALSE]>> \o h)
\* The pinned ones, in order.  (SelectSeq, spelled out for the proofs.)
Pinned(h) ==
    LET upTo[i \in 0 .. Len(h)] ==
          IF i = 0 THEN <<>>
          ELSE IF h[i].pinned THEN Append(upTo[i - 1], h[i]) ELSE upTo[i - 1]
    IN upTo[Len(h)]
PinnedKeys(h) == [i \in DOMAIN Pinned(h) |-> Pinned(h)[i].key]

\* A copy of white space alone is not history.
add_text(h, t) == IF t = BlankText THEN h ELSE Added(h, <<"text", t>>)
add_image(h, n) == Added(h, Image(n))
toggle_pin(h, i) == [h EXCEPT ![i].pinned = ~@]
remove(h, i) == RemoveAt(h, i)

\* capture(), on every change of the clipboard.
Captured(h, c) ==
    CASE ~recording -> h
      [] recording /\ c = Picture -> add_image(h, images + 1)
      [] recording /\ c \in ClipTexts -> add_text(h, c)
      [] OTHER -> h
FilesWritten(c) == IF recording /\ c = Picture THEN images + 1 ELSE images

ClipInit == /\ clips = <<>> /\ kept = <<>> /\ clip = "nothing"
            /\ images = 0 /\ recording = TRUE

Copy(c) ==
    /\ c = Picture => images < MaxImages
    /\ clip' = c /\ clips' = Captured(clips, c) /\ images' = FilesWritten(c)
    /\ UNCHANGED <<kept, recording>>
CopyText == \E t \in ClipTexts : Copy(t)
CopyImage == Copy(Picture)
\* Putting an entry back changes the clipboard, and the change is captured.
applyRow == \E i \in DOMAIN clips :
                Copy(IF clips[i].key[1] = "clip" THEN Picture ELSE clips[i].key[2])

\* The pinned entries are saved in the order they have.
pinRow ==
    \E i \in DOMAIN clips :
        /\ clips' = toggle_pin(clips, i)
        /\ kept' = PinnedKeys(clips')
        /\ UNCHANGED <<clip, images, recording>>
\* A variant in which a deleted pin is not taken out of the file.
deleteRowOnly ==
    \E i \in DOMAIN clips :
        /\ clips' = remove(clips, i)
        /\ UNCHANGED <<kept, clip, images, recording>>

deleteClip ==
    \E i \in DOMAIN clips :
        /\ clips' = remove(clips, i)
        /\ kept' = IF clips[i].pinned THEN PinnedKeys(clips') ELSE kept
        /\ UNCHANGED <<clip, images, recording>>
clearAll == /\ clips' = Pinned(clips)
            /\ UNCHANGED <<kept, clip, images, recording>>

SwitchRecording == /\ recording' = ~recording
                   /\ UNCHANGED <<clips, kept, clip, images>>
\* A new session: the pinned entries of the file, then what the clipboard holds.
_load_pinned == LET n == IF Len(kept) > Limit THEN Limit ELSE Len(kept)
                IN [i \in 1..n |-> [key |-> kept[i], pinned |-> TRUE]]
ClipRestart == \E c \in {"nothing"} \cup ClipTexts :
                  /\ clip' = c /\ clips' = Captured(_load_pinned, c)
                  /\ UNCHANGED <<kept, images, recording>>

ClipNext == CopyText \/ CopyImage \/ applyRow \/ pinRow \/ deleteClip \/ clearAll
            \/ SwitchRecording \/ ClipRestart
ClipSpec == ClipInit /\ [][ClipNext]_clipVars

Keys(h) == {h[i].key : i \in DOMAIN h}
-----------------------------------------------------------------------------
(* The history holds no content twice and no more than the limit, and the   *)
(* pinned entries are, as a set, the ones the file would bring back: what a *)
(* user pinned survives a logout whatever was copied, cleared or trimmed in *)
(* between (History's contract, "Only pinned entries reach the disk").      *)
PinsArePersistent ==
    /\ Len(clips) <= Limit /\ IsInjective([i \in DOMAIN clips |-> clips[i].key])
    /\ Keys(Pinned(clips)) = {kept[i] : i \in DOMAIN kept}

=============================================================================
