------------------------------- MODULE Slides -------------------------------
(* Zaldros Slides: DeckModel over the engine's slides, and Slides.qml's notes  *)
(* editor.  Positions count from 1.                                           *)
EXTENDS Integers, Sequences, SequencesExt, FiniteSetsExt
CONSTANTS SlideTexts,       \* what can be typed; "" is among it
          MaxSlides, MaxDeckEdits   \* bounds
VARIABLES deck,        \* the engine's slides, each with an identity of its own
          slides, slide, deckStatus,   \* DeckModel
          notes,       \* the notes editor: its text, and the slide it is about
          unheard,     \* history: since it was read last, the deck changed in a call or was
                       \* not read in a refresh that raised past the model's handlers
          deckEdits
slideVars == <<deck, slides, slide, deckStatus, notes, unheard, deckEdits>>

LAYOUTS == {"content", "title only", "blank"}
HasTitle(s) == s.layout # "blank"
HasBody(s) == s.layout = "content"
NoSlide == -1
New(layout) == [id |-> deckEdits, title |-> "", body |-> "", notes |-> "", layout |-> layout]

\* DeckModel.changed: what QML shows is bound to these, the notes editor too; a selection
\* the pane does not have gives it no slide.
Emit(pane, at, said) ==
    /\ slides' = pane /\ slide' = at /\ deckStatus' = said
    /\ notes' = IF at \in DOMAIN pane THEN [text |-> pane[at].notes, of |-> pane[at].id]
                ELSE [text |-> "", of |-> NoSlide]
\* refresh: its handler knows EngineError alone, and a reading of the engine raises others.
refresh(at) ==
    \/ Emit(deck', Min({at, Len(deck')}), "") /\ unheard' = FALSE
    \/ slide' = at /\ unheard' = TRUE /\ UNCHANGED <<slides, deckStatus, notes>>
\* An EngineError: the pane stays as it was read last.
DeckRefused(why) == Emit(slides, slide, why) /\ UNCHANGED unheard
\* Any other exception ends the slot, and nobody is told.
Raised ==
    /\ unheard' = (unheard \/ deck' # deck)
    /\ UNCHANGED <<slides, slide, deckStatus, notes>>

SlidesInit ==
    /\ deckEdits = 0
    /\ deck = <<New("content")>> /\ slides = deck
    /\ slide = 1 /\ deckStatus = ""
    /\ notes = [text |-> "", of |-> deck[1].id]
    /\ unheard = FALSE

DeckEdit == deckEdits < MaxDeckEdits /\ deckEdits' = deckEdits + 1

(* Presentation: what each call makes of the deck, also when it then raises. *)
add_slide(d, layout) == Append(d, [New(layout) EXCEPT !.id = deckEdits'])
\* Impress keeps the last slide and says nothing.
remove_slide(d, i) == IF Len(d) = 1 THEN d ELSE RemoveAt(d, i)
\* The placeholders there are get their text before the missing one is reported.
set_text(d, i, title, body) ==
    [d EXCEPT ![i].title = IF HasTitle(d[i]) THEN title ELSE @,
              ![i].body = IF HasBody(d[i]) THEN body ELSE @]
set_layout(d, i, layout) == [d EXCEPT ![i].layout = layout]
set_notes(d, i, text) == [d EXCEPT ![i].notes = text]

\* The button asks for the layout of title and content, behind the last slide.  The page
\* is there before the engine is asked for its layout, and addSlide handles no error.
addSlide ==
    /\ DeckEdit /\ Len(deck) < MaxSlides
    /\ \/ deck' = add_slide(deck, "content") /\ refresh(Len(deck'))
       \/ deck' \in {deck, add_slide(deck, "blank"), add_slide(deck, "content")} /\ Raised
removeSlide(i) ==
    /\ DeckEdit
    /\ IF i \in DOMAIN deck
       THEN \/ deck' = remove_slide(deck, i) /\ refresh(slide)
            \/ deck' \in {deck, remove_slide(deck, i)} /\ Raised
       ELSE deck' = deck /\ DeckRefused("no such slide")
setText(i, title, body) ==
    /\ DeckEdit
    /\ \/ /\ deck' = set_text(deck, i, title, body)
          /\ IF HasTitle(deck[i]) /\ HasBody(deck[i]) THEN refresh(slide)
             ELSE DeckRefused("no placeholder")
       \/ \E t \in {title, deck[i].title}, b \in {body, deck[i].body} :
             deck' = set_text(deck, i, t, b) /\ Raised
\* The layout may be set although the engine's answer is an error.
setLayout(i, layout) ==
    /\ DeckEdit
    /\ \/ deck' = set_layout(deck, i, layout) /\ refresh(slide)
       \/ deck' \in {deck, set_layout(deck, i, layout)} /\ DeckRefused("no layout")
\* The transition is no part of what the pane shows; an engine may refuse its number.
setTransition ==
    /\ DeckEdit /\ UNCHANGED deck
    /\ refresh(slide) \/ DeckRefused("no transition")
saveAs ==
    /\ DeckEdit /\ UNCHANGED deck
    /\ UNCHANGED <<slides, slide, deckStatus, notes, unheard>> \/ DeckRefused("not written")
\* Mutant: the selection moves without a word.
selectSilently(i) ==
    /\ i \in DOMAIN slides /\ slide' = i
    /\ UNCHANGED <<deck, slides, deckStatus, notes, unheard, deckEdits>>
selectSlide(i) ==
    /\ i \in DOMAIN slides
    /\ Emit(slides, i, deckStatus)
    /\ UNCHANGED <<deck, unheard, deckEdits>>

TypeNotes ==
    /\ \E text \in SlideTexts : notes' = [notes EXCEPT !.text = text]
    /\ UNCHANGED <<deck, slides, slide, deckStatus, unheard, deckEdits>>
\* Enter in the notes editor: setNotes of the current slide, by its number.
setNotes ==
    /\ DeckEdit
    /\ \/ /\ slide \in DOMAIN deck
          /\ \/ deck' = set_notes(deck, slide, notes.text) /\ refresh(slide)
             \/ deck' \in {deck, set_notes(deck, slide, notes.text)} /\ Raised
       \/ UNCHANGED deck /\ DeckRefused("no notes")

SlidesNext ==
    \/ addSlide \/ \E i \in 1..MaxSlides : removeSlide(i) \/ selectSlide(i)
    \/ \E i \in DOMAIN deck : \/ \E t, b \in SlideTexts : setText(i, t, b)
                              \/ \E layout \in LAYOUTS : setLayout(i, layout)
    \/ setTransition \/ saveAs \/ TypeNotes \/ setNotes
SlidesSpec == SlidesInit /\ [][SlidesNext]_slideVars

Ids(s) == [i \in DOMAIN s |-> s[i].id]
\* The pane is a view of the engine's deck: the same slides in the same order, the same
\* contents unless the model reports an error, and the notes editor writes to the slide
\* its text is about, whatever was added, removed, selected or refused meanwhile.  They
\* part only when the deck changed in a call, or was not read, with an exception nobody
\* handles, and the next reading brings them together again (model.py, Slides.qml).
PaneIsTheDeck ==
    \/ unheard
    \/ /\ Ids(slides) = Ids(deck)
       /\ deckStatus = "" => slides = deck
       /\ slide \in DOMAIN deck /\ notes.of = deck[slide].id
=============================================================================
