----------------------------- MODULE Autocomplete -----------------------------
(***************************************************************************)
(* The autocomplete of jquery-ui.js and the ui.menu of its suggestions: a  *)
(* field, the timer that searches after typing, the timer that closes after *)
(* the field is left, and answers that come when they come.                *)
(***************************************************************************)
EXTENDS Integers, Sequences, SequencesExt

CONSTANTS
    Words,     \* the texts of the field; NoText is below minLength
    NoText,
    Matches,   \* the suggestions for each word
    MaxInputs  \* the bound on what the user does

ASSUME AutocompleteAssumption ==
    NoText \in Words /\ Matches \in [Words -> Seq(Words)] /\ MaxInputs \in Nat

VARIABLES
    source,    \* the option: "array", "url" or "function"
    field,     \* [value, term, previous, focused, searching]: the element, and
               \* whether its search timer is set
    menu,      \* [visible, items, active], active 0 for none
    requests,  \* the terms whose answer is awaited, loading the class of it,
    loading,   \* and the term of the last request
    askedTerm,
    closing,   \* [own, lost, keep]: whether the timer self.closing is set, how
               \* many earlier ones are, and whether a mousedown in the menu is
               \* about to clear it
    outside,   \* whether a mousedown outside closes the menu
    toldTerm,  \* the value at the last change event, or at the beginning
    odd,       \* what went wrong for a known reason
    inputs

acVars == <<source, field, menu, requests, loading, askedTerm, closing, outside,
            toldTerm, odd, inputs>>

AutocompleteInit ==
    /\ source \in {"array", "url", "function"}
    /\ field = [value |-> NoText, term |-> NoText, previous |-> NoText,
                focused |-> FALSE, searching |-> FALSE]
    /\ menu = [visible |-> FALSE, items |-> <<>>, active |-> 0]
    /\ requests = {} /\ loading = FALSE /\ askedTerm = NoText
    /\ closing = [own |-> FALSE, lost |-> 0, keep |-> FALSE]
    /\ outside = FALSE /\ toldTerm = NoText /\ odd = {} /\ inputs = 0

-----------------------------------------------------------------------------
(* What a handler does is worked out on a record of field, menu, requests, *)
(* loading, askedTerm and the timer self.closing.                          *)

All == [field |-> field, menu |-> menu, requests |-> requests, loading |-> loading,
        asked |-> askedTerm, own |-> closing.own]
Sets(n) ==
    /\ field' = n.field /\ menu' = n.menu /\ requests' = n.requests
    /\ loading' = n.loading /\ askedTerm' = n.asked
\* Nobody does two things within the 13 milliseconds of keep.
Input == ~closing.keep /\ inputs < MaxInputs /\ inputs' = inputs + 1

\* The blur callback of the menu puts the term back into a field that shows
\* something else.
TermRestored(n) == IF n.menu.visible THEN n.field.term ELSE n.field.value

Deactivated(n) ==
    IF n.menu.active = 0 THEN n
    ELSE [n EXCEPT !.menu.active = 0, !.field.value = TermRestored(n)]

\* close.
Shut(n) == [n EXCEPT !.own = FALSE, !.menu.visible = FALSE,
                     !.menu.active = IF n.menu.visible THEN 0 ELSE @]

\* _response and _suggest.
Responded(n, items) ==
    LET shown == Deactivated([n EXCEPT !.menu.items = items])
    IN  IF items = <<>> THEN [Shut(n) EXCEPT !.loading = FALSE]
        ELSE [shown EXCEPT !.menu.visible = TRUE, !.loading = FALSE]

(***************************************************************************)
(* A url's request aborts the one before.  Most browsers call its error    *)
(* callback from the abort, while it still is self.xhr: it answers with    *)
(* nothing, and the class of loading, which search has just set, goes.     *)
(***************************************************************************)
CutsOff(n, calls) == source = "url" /\ calls /\ n.requests # {}
CutShort(n, calls) == IF CutsOff(n, calls) THEN Responded(n, <<>>) ELSE n

\* search, and the source; calls tells what the browser does on an abort.
Searched(n, calls) ==
    LET t    == n.field.value
        term == [n EXCEPT !.field.term = t]
        go   == [term EXCEPT !.own = FALSE, !.loading = TRUE, !.asked = t]
    IN  IF t = NoText THEN Shut(term)
        ELSE CASE source = "array"    -> Responded(go, Matches[t])
               [] source = "url"      -> [CutShort(go, calls) EXCEPT !.requests = {t}]
               [] source = "function" -> [go EXCEPT !.requests = @ \cup {t}]

\* activate, by a key or by the mouse.
Activated(n, i, key) ==
    LET m == Deactivated(n)
    IN  [m EXCEPT !.menu.active = i, !.field.value = IF key THEN m.menu.items[i] ELSE @]

-----------------------------------------------------------------------------
(* The keyboard.                                                           *)

Still == UNCHANGED <<source, closing, outside, toldTerm, odd>>
KeptBut(n) == Sets(n) /\ closing' = [closing EXCEPT !.own = n.own]
              /\ UNCHANGED <<source, outside, toldTerm>>
Kept(n)    == KeptBut(n) /\ UNCHANGED odd

\* A handler that searches, if it does, in the record n.
KeptSearching(n, searches, calls) ==
    /\ KeptBut(IF searches THEN Searched(n, calls) ELSE n)
    /\ odd' = IF ~searches \/ n.field.value = NoText THEN odd
              ELSE IF CutsOff(n, calls) THEN odd \cup {"cut"} ELSE odd \ {"cut"}

Type(w) ==
    /\ Input /\ field.focused
    /\ Sets([All EXCEPT !.field.value = w, !.field.searching = TRUE]) /\ Still

SearchTimer(calls) ==
    /\ field.searching
    /\ KeptSearching([All EXCEPT !.field.searching = FALSE], field.term # field.value, calls)
    /\ UNCHANGED inputs

\* The item that a key moves to; beyond the last there is none.
NextItem(d) ==
    IF menu.active # 0 THEN menu.active + d
    ELSE IF d = 1 THEN 1 ELSE Len(menu.items)

\* _move: the keys up and down; from the ends they go back to the field.
MoveActive(d, calls) ==
    /\ Input /\ field.focused
    /\ \/ ~menu.visible /\ KeptSearching(All, TRUE, calls)
       \/ menu.visible /\ Kept(
             IF NextItem(d) \in 1..Len(menu.items) THEN Activated(All, NextItem(d), TRUE)
             ELSE Deactivated([All EXCEPT !.field.value = field.term]))

\* The selected handler; a field that has lost the focus gets it back and
\* keeps what it had as previous.
ChosenItem(n, i) ==
    LET w == n.menu.items[i]
    IN  Shut([n EXCEPT !.field.focused = TRUE, !.field.value = w, !.field.term = w])

EnterKey ==
    /\ Input /\ field.focused /\ menu.active # 0
    /\ Kept(ChosenItem(All, menu.active))

EscapeKey ==
    /\ Input /\ field.focused
    /\ Kept(Shut([All EXCEPT !.field.value = field.term]))

-----------------------------------------------------------------------------
(* The focus and the mouse.                                                *)

\* The timer of an earlier blur is forgotten, but goes off.
Blurred == [closing EXCEPT !.own = TRUE, !.lost = IF closing.own THEN @ + 1 ELSE @]

\* mutant: the timer of the search is not cleared.
LeaveFieldSearching ==
    /\ Input /\ field.focused
    /\ field' = [field EXCEPT !.focused = FALSE]
    /\ closing' = Blurred
    /\ UNCHANGED <<source, menu, requests, loading, askedTerm, outside, toldTerm, odd>>

LeaveField ==
    /\ Input /\ field.focused
    /\ field' = [field EXCEPT !.focused = FALSE, !.searching = FALSE]
    /\ closing' = Blurred
    /\ UNCHANGED <<source, menu, requests, loading, askedTerm, outside, toldTerm, odd>>

EnterField ==
    /\ Input /\ ~field.focused
    /\ field' = [field EXCEPT !.focused = TRUE, !.previous = field.value]
    /\ outside' = FALSE
    /\ odd' = IF toldTerm = field.value /\ ~closing.own /\ closing.lost = 0 THEN odd
              ELSE odd \cup {"hasty"}
    /\ UNCHANGED <<source, menu, requests, loading, askedTerm, closing, toldTerm>>

Hover(i) ==
    /\ Input /\ menu.visible /\ i \in 0..Len(menu.items) /\ i # menu.active
    /\ Kept(IF i = 0 THEN Deactivated(All) ELSE Activated(All, i, FALSE))

(***************************************************************************)
(* The button goes down in the menu, on an item or on its scrollbar; the   *)
(* field loses the focus, and 13 milliseconds later the timer of that is   *)
(* cleared.                                                                *)
(***************************************************************************)
MenuDown(item) ==
    /\ Input /\ menu.visible /\ (item => menu.active # 0)
    /\ field' = [field EXCEPT !.focused = FALSE, !.searching = @ /\ ~field.focused]
    /\ closing' = [(IF field.focused THEN Blurred ELSE closing) EXCEPT !.keep = TRUE]
    /\ outside' = (outside \/ ~item)
    /\ odd' = odd \cup {"held"}
    /\ UNCHANGED <<source, menu, requests, loading, askedTerm, toldTerm>>

KeepTimer ==
    /\ closing.keep
    /\ closing' = [closing EXCEPT !.keep = FALSE, !.own = FALSE]
    /\ UNCHANGED <<source, field, menu, requests, loading, askedTerm, outside, toldTerm,
                   odd, inputs>>

MenuClick ==
    /\ Input /\ menu.visible /\ menu.active # 0 /\ "held" \in odd
    /\ Sets(ChosenItem(All, menu.active))
    /\ closing' = [closing EXCEPT !.own = FALSE]
    /\ odd' = odd \ {"held"}
    /\ UNCHANGED <<source, outside, toldTerm>>

OutsideDown ==
    /\ Input /\ outside
    /\ Sets(Shut(All)) /\ closing' = [closing EXCEPT !.own = FALSE]
    /\ outside' = FALSE
    /\ odd' = IF closing.own /\ ~field.focused THEN odd \cup {"hushed"} ELSE odd
    /\ UNCHANGED <<source, toldTerm>>

TellsChange == toldTerm' = IF field.previous # field.value THEN field.value ELSE toldTerm

\* Every one of the timers closes, clears self.closing and looks for a change.
ClosingTimer ==
    /\ closing.own \/ closing.lost > 0
    /\ Sets(Shut(All))
    /\ closing' = [closing EXCEPT !.own = FALSE, !.lost = IF @ > 0 THEN @ - 1 ELSE 0]
    /\ TellsChange
    /\ UNCHANGED <<source, outside, odd, inputs>>

AnswerSearch(t, ok) ==
    /\ t \in requests
    /\ LET n == Responded([All EXCEPT !.requests = @ \ {t}], IF ok THEN Matches[t] ELSE <<>>)
       IN  Sets(n) /\ closing' = [closing EXCEPT !.own = n.own]
    /\ odd' = IF field.focused \/ closing'.own THEN odd
              ELSE odd \cup {IF closing.own THEN "hushed" ELSE "late"}
    /\ UNCHANGED <<source, outside, toldTerm, inputs>>

AutocompleteNext ==
    \/ \E w \in Words : Type(w)
    \/ EnterKey \/ EscapeKey \/ LeaveField \/ EnterField
    \/ \E calls \in BOOLEAN : SearchTimer(calls) \/ \E d \in {-1, 1} : MoveActive(d, calls)
    \/ \E i \in 0..2 : Hover(i)
    \/ \E item \in BOOLEAN : MenuDown(item)
    \/ KeepTimer \/ MenuClick \/ OutsideDown \/ ClosingTimer
    \/ \E t \in Words, ok \in BOOLEAN : AnswerSearch(t, ok)

AutocompleteSpec == AutocompleteInit /\ [][AutocompleteNext]_acVars

-----------------------------------------------------------------------------
AutocompleteTypeOK ==
    /\ field.value \in Words /\ field.term \in Words /\ field.previous \in Words
    /\ menu.items \in Seq(Words) /\ menu.active \in 0..Len(menu.items)
    /\ requests \subseteq Words /\ askedTerm \in Words /\ toldTerm \in Words
    /\ closing.lost \in 0..MaxInputs /\ inputs \in 0..MaxInputs

(***************************************************************************)
(* What the menu shows, once nothing is loading, is what the last search   *)
(* found, unless the page's own source mixes its answers up; and the field *)
(* says that it is loading exactly while an answer is awaited, except that *)
(* a search that has cut another one off hides it.  A field that was left, *)
(* and whose timers have gone off, has closed its menu, unless the answer  *)
(* came after that or the button is held in the menu; and has told of its  *)
(* change, unless it was entered again before.                             *)
(***************************************************************************)
SuggestionsFit ==
    source # "function" =>
        /\ loading => requests # {}
        /\ requests # {} => loading \/ "cut" \in odd
        /\ menu.visible /\ ~loading => menu.items = Matches[askedTerm]

FieldSettles ==
    ~field.focused /\ closing.lost = 0 /\ ~closing.own /\ "held" \notin odd =>
        /\ menu.visible => "late" \in odd
        /\ toldTerm = field.value \/ odd \cap {"hasty", "hushed", "late"} # {}
=============================================================================
