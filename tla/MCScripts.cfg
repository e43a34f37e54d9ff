SPECIFICATION Spec
CONSTANTS
  Scenes = {"slider", "menu", "form", "rails", "ajax", "float", "range", "tabs", 
            "accordion", "dialogs", "autocomplete", "selectable", "effects",
            "events", "data", "ready", "selectors"}
  N = 3
  MaxClicks = 6
  Items = {i1, i2}
  WithList = {i1, i2}
  Rows = {w1, w2}
  MaxPointerMoves = 4
  Texts = {t1, t2}
  Limit = 1
  MaxLength = 2
  MaxFormEvents = 6
  Requests = {r1, r2, r3, r4}
  Timed = {r1, r2}
  Jsonp = {r2, r4}
  Remote = {r3, r4}
  Fragile = {r2}
  OfForms = {r1, r2}
  Forms = {f1, f2}
  Links = {l1, l2}
  IsRemote = {f1}
  WithMethod = {l1}
  DisablesWith = {f1, f2}
  MaxUses = 2
  Followers <- MCFollowers
  Float <- MCFloat
  Container <- MCContainer
  ViewHeight = 6
  PageHeight = 12
  ValueMin = 0
  ValueMax = 15
  Step = 5
  PageStep = 3
  RangePlaces = {0, 7, 8, 14}
  MaxStrokes = 3
  TabIds = {1, 2, 3}
  RemoteTabs = {1, 3}
  MaxActs = 3
  Headers = 3
  MaxTurns = 5
  Dialogs = {1, 2, 3}
  Modal = {1, 2}
  HidesSlowly = {2}
  ZIndex = 2
  MaxDialogMoves = 5
  Words = {"", "a", "ab", "ac"}
  NoText = ""
  Matches <- MCMatches
  MaxInputs = 5
  RowLength = 3
  MaxPulls = 3
  FxElements = {e1, e2}
  FxKinds = {"hide"}
  Props = 2
  Callbacks = {"none", "stop", "animate"}
  MaxCalls = 3
  Path <- MCPath
  Guids = {"again", "drop"}
  Does <- MCDoes
  Names = {"x"}
  MaxBinds = 2
  MaxEvents = 2
  Nodes = {"top", "a", "copy"}
  Copies <- MCCopies
  RootNode = "top"
  DataKeys = {"k"}
  DomTypes = {"click"}
  MaxIds = 2
  Functions = {fn1, fn2, fn3}
  Raising = {fn2}
  IE = TRUE
  MaxHolds = 2
  Elements = {1, 2, 3, 4, 5}
  Tag <- MCTag
  Id <- MCId
  Marks <- MCMarks
  Docs <- MCDocs
  Selectors <- MCSelectors
  Natives = {TRUE, FALSE}
  MaxQueries = 2
INVARIANTS TypeOK ShownInPlace FormsHold MouseDecides WidgetsAtRest
           FieldAndMenuAgree FunctionsRunOnce BooksAreRight FindsWhatIsMeant
PROPERTIES MenuCloses QueuesDrain TimedRequestsComplete
CHECK_DEADLOCK FALSE
