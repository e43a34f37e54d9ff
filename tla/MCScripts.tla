------------------------------ MODULE MCScripts ------------------------------
(***************************************************************************)
(* The browser code, script by script: a behaviour is about one of them,   *)
(* its scene, and leaves the others as they were.                          *)
(***************************************************************************)
EXTENDS ContentSlider, PageMenu, PostForm, RemoteForms, FloatingItems,
        RangeSlider, Tabs, Accordion, Dialogs, Autocomplete, Selectable,
        Effects, Events, DomData, Ready, Sizzle

CONSTANTS Scenes,    \* the scripts to be checked
          OfForms    \* the requests that links and forms make

VARIABLE scene

(* What follows, what floats, and where. *)
MCFollowers == <<[top |-> 2, edge |-> "top", offset |-> 1],
                 [top |-> 4, edge |-> "bottom", offset |-> 1],
                 [top |-> 1, edge |-> "top", offset |-> 0]>>
MCFloat     == [height |-> 2, home |-> 3, top |-> 1, bottom |-> 1, center |-> 5]
MCContainer == [top |-> 2, height |-> 7]

(* Suggestions: "a" has two, "ab" one, the other words none. *)
MCMatches == [w \in Words |-> CASE w = "a" -> <<"ab", "ac">>
                                [] w = "ab" -> <<"ab">>
                                [] OTHER -> <<>>]

(* An element in the document and the functions of a page. *)
MCPath == <<"box", "document">>
MCDoes == [g \in Guids |-> CASE g = "drop"  -> {"unbind", "false"}
                             [] g = "again" -> {"trigger"}]

MCCopies == [n \in {"a"} |-> "copy"]

(* Five elements in three shapes, and selectors of every kind for them. *)
T(t) == [Star EXCEPT !.tag = t]
I(i) == [Star EXCEPT !.id = i]
M(m) == [Star EXCEPT !.marks = {m}]
MCTag   == <<"a", "b", "b", "c", "b">>
MCId    == <<"i", "", "", "", "j">>
MCMarks == <<{}, {"x"}, {}, {"x"}, {"x"}>>
MCFirst == [order |-> <<1, 2, 3, 4, 5>>, parent |-> <<0, 1, 2, 3, 1>>]
MCDocs  == {MCFirst,
            [order |-> <<1, 2, 5, 3, 4>>, parent |-> <<0, 1, 5, 5, 1>>],
            [order |-> <<1, 5, 3, 2, 4>>, parent |-> <<0, 3, 5, 1, 1>>]}
MCSelectors ==
  {<< <<T("b")>> >>,
   << <<T("a"), Rel(">"), T("b"), T("c")>> >>,
   << <<M("x"), T("b")>> >>,
   << <<[T("b") EXCEPT !.nth = 2], T("c")>> >>,
   << <<T("b"), Rel("~"), M("x")>>, <<T("c")>> >>,
   << <<I("i"), Rel(">"), M("x")>> >>,
   << <<T("b"), Rel("+"), [Star EXCEPT !.nots = {"x"}]>> >>,
   << <<Rel(">"), M("x")>> >>,
   << <<T("b"), T("b"), [T("c") EXCEPT !.pos = "first"]>> >>,
   << <<[T("b") EXCEPT !.pos = "even"], Rel("~"), T("b")>> >>,
   << <<[M("x") EXCEPT !.tag = "*"], Rel(">"), [T("*") EXCEPT !.nth = 1]>> >>}

-----------------------------------------------------------------------------
(* A script that is not the scene's begins in one way only. *)
Init ==
    /\ scene \in Scenes
    /\ SliderInit /\ MenuInit /\ RailsInit /\ DialogsInit
    /\ EventsInit /\ DomInit /\ ReadyInit
    /\ FormInit /\ (scene # "form" => length = [t \in Texts |-> 0])
    /\ FloatInit /\ (scene # "float" => ~gives_way)
    /\ RangeInit /\ (scene # "range" => ~slider.delayed)
    /\ TabsInit /\ (scene # "tabs" => ~(tabs.fx \/ tabs.cache \/ tabs.collapsible)
                                      /\ tabs.disabled = {})
    /\ AccordionInit /\ (scene # "accordion" => ~(acc.animated \/ acc.collapsible))
    /\ AutocompleteInit /\ (scene # "autocomplete" => source = "array")
    /\ SelectableInit /\ (scene # "selectable" => ~(lasso.autoRefresh \/ lasso.fit)
                                                  /\ heard = {})
    /\ FxInit /\ (scene # "effects" => \A e \in FxElements : fx.shown[e])
    /\ SizzleInit /\ (scene # "selectors" => doc = MCFirst)

In(s) ==
    /\ scene = s /\ UNCHANGED scene
    /\ s # "slider" => UNCHANGED sliderVars
    /\ s # "menu" => UNCHANGED menuVars
    /\ s # "form" => UNCHANGED formVars
    /\ s # "rails" => UNCHANGED <<bound, button, owner, sentTo>>
    /\ s \notin {"rails", "ajax"} => UNCHANGED ajaxVars
    /\ s # "float" => UNCHANGED floatVars
    /\ s # "range" => UNCHANGED rangeVars
    /\ s # "tabs" => UNCHANGED tabsVars
    /\ s # "accordion" => UNCHANGED accVars
    /\ s # "dialogs" => UNCHANGED dialogVars
    /\ s # "autocomplete" => UNCHANGED acVars
    /\ s # "selectable" => UNCHANGED selectableVars
    /\ s # "effects" => UNCHANGED fxVars
    /\ s # "events" => UNCHANGED eventVars
    /\ s # "data" => UNCHANGED domVars
    /\ s # "ready" => UNCHANGED readyVars
    /\ s # "selectors" => UNCHANGED sizzleVars

Next ==
    \/ In("slider") /\ SliderNext
    \/ In("menu") /\ MenuNext
    \/ In("form") /\ FormNext
    \/ In("rails") /\ RailsNext /\ net'.begun \subseteq OfForms
    \/ In("ajax") /\ AjaxNext
    \/ In("float") /\ FloatNext
    \/ In("range") /\ RangeNext
    \/ In("tabs") /\ TabsNext
    \/ In("accordion") /\ AccordionNext
    \/ In("dialogs") /\ DialogsNext
    \/ In("autocomplete") /\ AutocompleteNext
    \/ In("selectable") /\ SelectableNext
    \/ In("effects") /\ FxNext
    \/ In("events") /\ EventsNext
    \/ In("data") /\ DomNext
    \/ In("ready") /\ ReadyNext
    \/ In("selectors") /\ SizzleNext

vars == <<scene, sliderVars, menuVars, formVars, railsVars, floatVars, rangeVars,
          tabsVars, accVars, dialogVars, acVars, selectableVars, fxVars, eventVars,
          domVars, readyVars, sizzleVars>>

Spec == Init /\ [][Next]_vars /\ MenuFairness /\ FxFairness /\ AjaxFairness

-----------------------------------------------------------------------------
TypeOK ==
    /\ SliderTypeOK /\ MenuTypeOK /\ FormTypeOK /\ RailsTypeOK /\ FloatTypeOK
    /\ RangeTypeOK /\ TabsTypeOK /\ AccordionTypeOK /\ DialogsTypeOK
    /\ AutocompleteTypeOK /\ SelectableTypeOK
    /\ FxTypeOK /\ EventsTypeOK /\ DomTypeOK /\ ReadyTypeOK /\ SizzleTypeOK

(* What the scripts show is where it should be: the article and buttons of *)
(* the content slider, the items that float with the mouse and the window, *)
(* the menu and the lit rows under the pointer.                            *)
ShownInPlace ==
    /\ SliderLeads /\ FloatsInSight /\ FollowersFollow
    /\ OpenUnderPointer /\ RowsFollowPointer

(* The widgets are consistent whenever they are at rest, whatever was done *)
(* to them while their animations and requests were under way.             *)
WidgetsAtRest == TabsAgree /\ AccordionAgrees /\ DialogsFit

(* What the mouse does to the slider's handles and to selectable items is  *)
(* decided by where it ends, and the page is told.                         *)
MouseDecides == HandlesInOrder /\ ValuesAreTold /\ LassoDecides

(* The forms tell no lies and are sent once: the buttons and the box of the *)
(* post form, the forms that disable their button, and the labels of those *)
(* that are sent by a request.                                             *)
FormsHold == FormHolds /\ OnceOnly /\ LabelsLast

(* What the field's menu shows was found for it, and it goes in the end.   *)
FieldAndMenuAgree == SuggestionsFit /\ FieldSettles

(* Functions of the page run once: those that wait for the document, and   *)
(* the callbacks of a request and of the first and the last request.       *)
FunctionsRunOnce == ReadyOnce /\ EndsOnce /\ ActivityAnnounced

(* What jQuery keeps beside the document is true of it: the cache of the   *)
(* elements' data, the handlers of events with what the browser is         *)
(* listened to for and which of them have run, and the queues of what is   *)
(* under way.                                                              *)
BooksAreRight == CacheFits /\ ListenersMatch /\ RunsOnce /\ SentinelTellsTruth

(* Selectors and traversals find what they mean.                           *)
FindsWhatIsMeant == SelectsLikeCss /\ TraversesTheTree
=============================================================================
