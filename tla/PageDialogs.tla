---------------------------- MODULE PageDialogs ----------------------------
(***************************************************************************)
(* The main page in the browser: the tabs and the program modal that hold  *)
(* pages in iframes, the requests those pages send, the "please wait"      *)
(* dialog of each request, the confirm dialogs, and the transitions that   *)
(* show and hide a dialog (js/m.js, js/f.js, bootbox.js and the Modal of   *)
(* the patched bootstrap.js).                                              *)
(*                                                                         *)
(* JavaScript runs one handler at a time, so a handler is an action.  What *)
(* interleaves is what the handlers wait for: the user, the server's       *)
(* answers and the ends of transitions.  Every transition of a dialog      *)
(* takes the 150 ms of class "fade", so transitions end in the order in    *)
(* which they began: timers is a queue.                                    *)
(***************************************************************************)
EXTENDS Naturals, Sequences, FiniteSets

CONSTANTS
    Program,   \* programs whose pages open in tabs
    Querying,  \* pages that send a request as soon as they have loaded
    Requests,  \* how many requests are sent: a bound
    Confirm,   \* confirm dialogs, each asked once
    Modal,     \* the modal of a program, with its page
    None

Request == 1..Requests   \* in the order sent; the number is also the name of
                         \* the request's wait dialog

Page == Program \cup {Modal}

ASSUME DialogsDiffer ==
    /\ Requests \in Nat
    /\ Request \cap Confirm = {}
    /\ Modal \notin Request \cup Confirm \cup Program
    /\ None \notin Request \cup Confirm \cup Program \cup {Modal}
    /\ Program \cap Confirm = {}
    /\ Querying \subseteq Page

Box == Request \cup Confirm         \* bootbox dialogs, a new element each
Dialog == Box \cup {Modal}
Phase == {"backdrop", "shown", "hide", "hidden"}

VARIABLES
    tabs,      \* _tabData, in the order of the headers
    active,    \* the tab that is shown
    frame,     \* what the modal's iframe holds: its page or about:blank
    leaving,   \* pages being replaced: requested anew, the answer is not here yet
    loading,   \* pages of Querying that have loaded and not sent their request
    shown,     \* dialogs with _isShown
    moving,    \* dialogs with _isTransitioning
    up,        \* dialogs displayed (display: block)
    backdrop,  \* dialogs whose backdrop element is in the document
    boxes,     \* bootbox elements in the document, the last one on top
    bodyOpen,  \* class modal-open of the body
    timers,    \* transitions under way: <<dialog, phase that follows>>
    req,       \* state of each request
    from,      \* the page its answer will call back
    asker,     \* the page a confirm dialog will call back
    hasty,     \* history: of them, those sent by a page on its way out, or whose
               \* page the user sent away before the wait dialog was up
    focus      \* the page or confirm dialog whose button the keyboard presses

pages == <<tabs, active, frame, leaving, loading>>
screen == <<shown, moving, up, backdrop, boxes, bodyOpen, timers>>
calls == <<req, from, asker, hasty>>
vars == <<tabs, active, frame, leaving, loading, shown, moving, up, backdrop,
          boxes, bodyOpen, timers, req, from, asker, hasty, focus>>

TypeOK ==
    /\ tabs \in Seq(Program)
    /\ active \in Program \cup {None}
    /\ frame \in {"blank", "page"}
    /\ leaving \subseteq Page /\ loading \subseteq Querying
    /\ shown \subseteq Dialog /\ moving \subseteq Dialog
    /\ up \subseteq Dialog /\ backdrop \subseteq Dialog
    /\ boxes \in Seq(Box)
    /\ bodyOpen \in BOOLEAN
    /\ timers \in Seq(Dialog \X Phase)
    /\ req \in [Request -> {"unsent", "sent", "answered", "lost"}]
    /\ from \in [Request -> Page \cup {None}]
    /\ asker \in [Confirm -> Page \cup {None}]
    /\ hasty \subseteq Request
    /\ focus \in Page \cup Confirm \cup {None}

Init ==
    /\ tabs = <<>> /\ active = None /\ frame = "blank"
    /\ leaving = {} /\ loading = {}
    /\ shown = {} /\ moving = {} /\ up = {} /\ backdrop = {}
    /\ boxes = <<>> /\ bodyOpen = FALSE /\ timers = <<>>
    /\ req = [r \in Request |-> "unsent"]
    /\ from = [r \in Request |-> None]
    /\ asker = [c \in Confirm |-> None]
    /\ hasty = {}
    /\ focus = None

Without(s, i) == SubSeq(s, 1, i - 1) \o SubSeq(s, i + 1, Len(s))
InBoxes(d) == \E i \in 1..Len(boxes) : boxes[i] = d
InTabs(t) == \E i \in 1..Len(tabs) : tabs[i] = t
-----------------------------------------------------------------------------
(* What the user can reach.  A backdrop (z-index 1040) covers the menu and *)
(* the tabs; the modal (1050) stays above the backdrops of later dialogs,  *)
(* and under those dialogs once they are displayed.                        *)
TabReached(t) == backdrop = {} /\ active = t
\* Mutation of MenuReached: a backdrop that fades in or out is not counted.
MenuBehindFading == up = {}
MenuReached == backdrop = {}
ModalReached == Modal \in up /\ up \subseteq {Modal}
BoxReached(c) ==
    /\ c \in up
    /\ \A i, j \in 1..Len(boxes) : boxes[i] = c /\ i < j => boxes[j] \notin up
PageReached(p) ==
    IF p = Modal THEN ModalReached /\ frame = "page" ELSE TabReached(p)

\* Mutation of Hideable: with the test of _isTransitioning, as in the original.
HideableAtRest(D) == (D \cap shown) \ moving
(* Modal.hide returns early only for a dialog that is not shown: the test   *)
(* of _isTransitioning was taken out for hideAll.                           *)
Hideable(D) == D \cap shown

\* A wait dialog has come up completely and has not been told to hide.
Settled(r) == r \in shown /\ \A i \in 1..Len(timers) : timers[i][1] # r

\* The page will be replaced or blanked; until then it works on.
Going(p) == p \in leaving \/ (p = Modal /\ Modal \notin shown)
\* Requests of p whose wait dialog is still coming up.
Rising(p) == {r \in shown \cap Request : req[r] = "sent" /\ from[r] = p /\ ~Settled(r)}
Loads(p) == {p} \cap Querying
SentBy(p, r) == IF Going(p) THEN hasty \cup {r} ELSE hasty

\* The next request to be sent.
Fresh(r) == req[r] = "unsent" /\ \A q \in 1..(r - 1) : req[q] # "unsent"

\* The hide transitions of the bootbox elements in D, in document order.
Lowerings(D) ==
    {s \in [1..Cardinality(D) -> D \X {"hide"}] :
        /\ \A d \in D : \E i \in DOMAIN s : s[i] = <<d, "hide">>
        /\ \A i, j \in DOMAIN s : i < j =>
              \E k, l \in 1..Len(boxes) :
                  k < l /\ boxes[k] = s[i][1] /\ boxes[l] = s[j][1]}

(* A page that is replaced takes its requests' callbacks with it.           *)
Unloaded(gone) ==
    [r \in Request |->
        IF req[r] = "sent" /\ from[r] \in gone THEN "lost" ELSE req[r]]
Unawaited(gone) ==
    [r \in Request |-> IF from[r] \in gone THEN None ELSE from[r]]
Unasked(gone) ==
    [c \in Confirm |-> IF asker[c] \in gone THEN None ELSE asker[c]]
FocusWithout(gone) == IF focus \in gone THEN None ELSE focus
-----------------------------------------------------------------------------
(* xhrSendParameter and its kin: the wait dialog, then the request.  The    *)
(* keyboard repeats the button that was pressed last.                       *)
Press(p, r) ==
    /\ PageReached(p) \/ focus = p
    /\ Fresh(r)
    /\ req' = [req EXCEPT ![r] = "sent"]
    /\ from' = [from EXCEPT ![r] = p]
    /\ hasty' = SentBy(p, r)
    /\ shown' = shown \cup {r} /\ moving' = moving \cup {r}
    /\ backdrop' = backdrop \cup {r} /\ bodyOpen' = TRUE
    /\ boxes' = Append(boxes, r)
    /\ timers' = Append(timers, <<r, "backdrop">>)
    /\ focus' = p
    /\ UNCHANGED <<pages, up, asker>>

(* parent.bootbox.confirm of a page in a tab.                               *)
Ask(t, c) ==
    /\ t # Modal /\ PageReached(t)
    /\ ~InBoxes(c) /\ asker[c] = None
    /\ asker' = [asker EXCEPT ![c] = t]
    /\ shown' = shown \cup {c} /\ moving' = moving \cup {c}
    /\ backdrop' = backdrop \cup {c} /\ bodyOpen' = TRUE
    /\ boxes' = Append(boxes, c)
    /\ timers' = Append(timers, <<c, "backdrop">>)
    /\ focus' = None
    /\ UNCHANGED <<pages, up, req, from, hasty>>

(* OK: the page's callback sends its request, then the dialog is hidden,    *)
(* unless a first OK has hidden it already.                                 *)
Agree(c, r) ==
    /\ BoxReached(c) \/ focus = c
    /\ asker[c] # None /\ Fresh(r)
    /\ req' = [req EXCEPT ![r] = "sent"]
    /\ from' = [from EXCEPT ![r] = asker[c]]
    /\ hasty' = SentBy(asker[c], r)
    /\ shown' = (shown \ Hideable({c})) \cup {r}
    /\ moving' = moving \cup Hideable({c}) \cup {r}
    /\ backdrop' = backdrop \cup {r} /\ bodyOpen' = TRUE
    /\ boxes' = Append(boxes, r)
    /\ timers' = timers \o <<<<r, "backdrop">>>> \o
          (IF c \in shown THEN <<<<c, "hide">>>> ELSE <<>>)
    /\ UNCHANGED <<pages, up, asker, focus>>

(* Cancel, the close button or Escape.                                      *)
Decline(c) ==
    /\ BoxReached(c) \/ focus = c
    /\ Hideable({c}) # {}
    /\ shown' = shown \ {c} /\ moving' = moving \cup {c}
    /\ timers' = Append(timers, <<c, "hide">>)
    /\ UNCHANGED <<pages, up, backdrop, boxes, bodyOpen, calls, focus>>

(* The answer or the timeout of a request: hideAll, then the page's         *)
(* callback, which may send a follow-up (again with a wait dialog) or set   *)
(* window.location: the page stays as it is until its successor arrives.    *)
HideAll == Hideable({d \in Box : InBoxes(d)})
Done(r) ==
    /\ req' = [req EXCEPT ![r] = "answered"]
    /\ from' = [from EXCEPT ![r] = None]
    /\ hasty' = hasty \ {r}
Answer(r) ==
    /\ req[r] = "sent"
    /\ shown' = shown \ HideAll /\ moving' = moving \cup HideAll
    /\ \E low \in Lowerings(HideAll) : timers' = timers \o low
    /\ Done(r)
    /\ UNCHANGED <<pages, up, backdrop, boxes, bodyOpen, asker, focus>>

AnswerAndReload(r) ==
    /\ req[r] = "sent"
    /\ shown' = shown \ HideAll /\ moving' = moving \cup HideAll
    /\ \E low \in Lowerings(HideAll) : timers' = timers \o low
    /\ Done(r)
    /\ leaving' = leaving \cup {from[r]}
    /\ UNCHANGED <<tabs, active, frame, loading>>
    /\ UNCHANGED <<up, backdrop, boxes, bodyOpen, asker, focus>>

AnswerAndFollow(r, next) ==
    /\ req[r] = "sent" /\ Fresh(next)
    /\ req' = [req EXCEPT ![r] = "answered", ![next] = "sent"]
    /\ from' = [from EXCEPT ![r] = None, ![next] = from[r]]
    /\ hasty' = SentBy(from[r], next) \ {r}
    /\ shown' = (shown \ HideAll) \cup {next}
    /\ moving' = moving \cup HideAll \cup {next}
    /\ backdrop' = backdrop \cup {next} /\ bodyOpen' = TRUE
    /\ boxes' = Append(boxes, next)
    /\ \E low \in Lowerings(HideAll) : timers' = timers \o low \o <<<<next, "backdrop">>>>
    /\ UNCHANGED <<pages, up, asker, focus>>
-----------------------------------------------------------------------------
(* The modal of a program and the tabs.                                     *)
OpenModal(t) ==
    /\ TabReached(t)
    /\ Modal \notin shown \cup moving
    /\ shown' = shown \cup {Modal} /\ moving' = moving \cup {Modal}
    /\ backdrop' = backdrop \cup {Modal} /\ bodyOpen' = TRUE
    /\ timers' = Append(timers, <<Modal, "backdrop">>)
    /\ focus' = None
    /\ UNCHANGED <<pages, up, boxes, calls>>

\* Mutation of CloseModal: all dialogs are hidden.
CloseModalAndAll ==
    /\ ModalReached
    /\ Hideable({Modal}) # {}
    /\ shown' = shown \ ({Modal} \cup HideAll)
    /\ moving' = moving \cup {Modal} \cup HideAll
    /\ \E low \in Lowerings(HideAll) :
          timers' = (timers \o low) \o <<<<Modal, "hide">>>>
    /\ focus' = None
    /\ UNCHANGED <<pages, up, backdrop, boxes, bodyOpen, calls>>
CloseModal ==
    /\ ModalReached
    /\ Hideable({Modal}) # {}
    /\ shown' = shown \ {Modal} /\ moving' = moving \cup {Modal}
    /\ timers' = Append(timers, <<Modal, "hide">>)
    /\ focus' = None
    /\ hasty' = hasty \cup Rising(Modal)
    /\ UNCHANGED <<pages, up, backdrop, boxes, bodyOpen, req, from, asker>>

(* addTab: an open tab is activated, and its iframe asks for its page       *)
(* again; a new one loads.                                                  *)
AddTab(t) ==
    /\ MenuReached
    /\ active' = t
    /\ IF InTabs(t)
       THEN leaving' = leaving \cup {t} /\ UNCHANGED <<tabs, loading>>
       ELSE tabs' = Append(tabs, t) /\ loading' = loading \cup Loads(t) /\ UNCHANGED leaving
    /\ focus' = None
    /\ UNCHANGED <<frame, screen, calls>>

(* closeTab: the tab before it is activated, or the last one.               *)
\* Mutation of Neighbour: off by one.
NeighbourItself(i) == tabs[i]
Neighbour(i) ==
    LET rest == Without(tabs, i)
    IN  IF i > 1 THEN tabs[i - 1]
        ELSE IF rest = <<>> THEN None ELSE rest[Len(rest)]
CloseTab(t) ==
    /\ MenuReached
    /\ \E i \in 1..Len(tabs) :
          tabs[i] = t /\ tabs' = Without(tabs, i) /\ active' = Neighbour(i)
    /\ leaving' = leaving \ {t} /\ loading' = loading \ {t}
    /\ req' = Unloaded({t}) /\ from' = Unawaited({t}) /\ asker' = Unasked({t})
    /\ focus' = None
    /\ UNCHANGED <<frame, screen, hasty>>

SwitchTab(t) ==
    /\ MenuReached
    /\ InTabs(t) /\ active # t
    /\ active' = t
    /\ focus' = None
    /\ UNCHANGED <<tabs, frame, leaving, loading, screen, calls>>
-----------------------------------------------------------------------------
(* Pages come and go.                                                       *)
(* A toolbar's refresh or a page's clear button: window.location is set.    *)
Refresh(p) ==
    /\ PageReached(p) \/ focus = p
    /\ leaving' = leaving \cup {p}
    /\ focus' = p
    /\ hasty' = hasty \cup Rising(p)
    /\ UNCHANGED <<tabs, active, frame, loading, screen, req, from, asker>>

(* The new document arrives, and the old one goes with all it waits for.    *)
Unload(p) ==
    /\ p \in leaving
    /\ leaving' = leaving \ {p} /\ loading' = loading \cup Loads(p)
    /\ req' = Unloaded({p}) /\ from' = Unawaited({p}) /\ asker' = Unasked({p})
    /\ focus' = FocusWithout({p})
    /\ UNCHANGED <<tabs, active, frame, screen, hasty>>

(* $(document).ready queries the grid, wherever the page is and whatever    *)
(* covers it.                                                               *)
Ready(p, r) ==
    /\ p \in loading /\ Fresh(r)
    /\ loading' = loading \ {p}
    /\ req' = [req EXCEPT ![r] = "sent"]
    /\ from' = [from EXCEPT ![r] = p]
    /\ hasty' = SentBy(p, r)
    /\ shown' = shown \cup {r} /\ moving' = moving \cup {r}
    /\ backdrop' = backdrop \cup {r} /\ bodyOpen' = TRUE
    /\ boxes' = Append(boxes, r)
    /\ timers' = Append(timers, <<r, "backdrop">>)
    /\ UNCHANGED <<tabs, active, frame, leaving, up, asker, focus>>
-----------------------------------------------------------------------------
(* The ends of transitions.                                                 *)
Ends(d, phase) == timers # <<>> /\ Head(timers) = <<d, phase>>

(* The backdrop has faded in: _showElement displays the dialog, also one    *)
(* that was hidden in the meantime.                                         *)
ShowElement(d) ==
    /\ Ends(d, "backdrop")
    /\ up' = up \cup {d}
    /\ timers' = Append(Tail(timers), <<d, "shown">>)
    /\ UNCHANGED <<pages, shown, moving, backdrop, boxes, bodyOpen, calls, focus>>

(* transitionComplete: focus, and the shown event, on which the modal's     *)
(* iframe loads its page and a confirm dialog focuses its button.  A dialog *)
(* that is no longer displayed takes no focus.                              *)
\* Mutation of TransitionComplete: every dialog takes the keyboard.
TransitionCompleteFocusAny(d) ==
    /\ Ends(d, "shown")
    /\ moving' = moving \ {d}
    /\ timers' = Tail(timers)
    /\ frame' = IF d = Modal THEN "page" ELSE frame
    /\ loading' = IF d = Modal THEN loading \cup Loads(Modal) ELSE loading
    /\ focus' = IF d \notin up THEN focus ELSE d
    /\ UNCHANGED <<tabs, active, leaving, shown, up, backdrop, boxes, bodyOpen, calls>>
\* Mutation of TransitionComplete: the focus stays where it was.
TransitionCompleteUnfocused(d) ==
    /\ Ends(d, "shown")
    /\ moving' = moving \ {d}
    /\ timers' = Tail(timers)
    /\ frame' = IF d = Modal THEN "page" ELSE frame
    /\ loading' = IF d = Modal THEN loading \cup Loads(Modal) ELSE loading
    /\ UNCHANGED <<tabs, active, leaving, shown, up, backdrop, boxes, bodyOpen, calls, focus>>
TransitionComplete(d) ==
    /\ Ends(d, "shown")
    /\ moving' = moving \ {d}
    /\ timers' = Tail(timers)
    /\ frame' = IF d = Modal THEN "page" ELSE frame
    /\ loading' = IF d = Modal THEN loading \cup Loads(Modal) ELSE loading
    /\ focus' = IF d \notin up THEN focus ELSE IF d \in Confirm THEN d ELSE None
    /\ UNCHANGED <<tabs, active, leaving, shown, up, backdrop, boxes, bodyOpen, calls>>

(* _hideModal: the dialog disappears, its backdrop begins to fade.          *)
HideModal(d) ==
    /\ Ends(d, "hide")
    /\ up' = up \ {d} /\ moving' = moving \ {d}
    /\ timers' = Append(Tail(timers), <<d, "hidden">>)
    /\ focus' = FocusWithout({d})
    /\ UNCHANGED <<pages, shown, backdrop, boxes, bodyOpen, calls>>

(* callbackRemove and the hidden event: the backdrop goes, a bootbox        *)
(* element is removed, the modal's iframe is blanked.                       *)
\* Mutation of HiddenBox: the element is not removed.
HiddenBoxKept(d) ==
    /\ Ends(d, "hidden") /\ d # Modal
    /\ timers' = Tail(timers)
    /\ backdrop' = backdrop \ {d} /\ bodyOpen' = FALSE
    /\ UNCHANGED <<pages, shown, moving, up, boxes, calls, focus>>
HiddenBox(d) ==
    /\ Ends(d, "hidden") /\ d # Modal
    /\ timers' = Tail(timers)
    /\ backdrop' = backdrop \ {d} /\ bodyOpen' = FALSE
    /\ \E i \in 1..Len(boxes) : boxes[i] = d /\ boxes' = Without(boxes, i)
    /\ UNCHANGED <<pages, shown, moving, up, calls, focus>>
\* Mutation of HiddenModal: the iframe keeps its page.
HiddenModalFilled ==
    /\ Ends(Modal, "hidden")
    /\ timers' = Tail(timers)
    /\ backdrop' = backdrop \ {Modal} /\ bodyOpen' = FALSE
    /\ UNCHANGED <<pages, shown, moving, up, boxes, calls, focus>>
HiddenModal ==
    /\ Ends(Modal, "hidden")
    /\ timers' = Tail(timers)
    /\ backdrop' = backdrop \ {Modal} /\ bodyOpen' = FALSE
    /\ frame' = "blank"
    /\ leaving' = leaving \ {Modal} /\ loading' = loading \ {Modal}
    /\ req' = Unloaded({Modal}) /\ from' = Unawaited({Modal})
    /\ asker' = Unasked({Modal})
    /\ focus' = FocusWithout({Modal})
    /\ UNCHANGED <<tabs, active, shown, moving, up, boxes, hasty>>

Tick ==
    \/ \E d \in Dialog : ShowElement(d) \/ TransitionComplete(d) \/ HideModal(d)
    \/ \E d \in Box : HiddenBox(d)
    \/ HiddenModal

Answers(r) ==
    \/ Answer(r)
    \/ AnswerAndReload(r)
    \/ \E next \in Request : AnswerAndFollow(r, next)

User ==
    \/ \E p \in Page : Refresh(p) \/ \E r \in Request : Press(p, r)
    \/ \E t \in Program, c \in Confirm : Ask(t, c)
    \/ \E c \in Confirm : Decline(c) \/ \E r \in Request : Agree(c, r)
    \/ \E t \in Program :
          OpenModal(t) \/ AddTab(t) \/ CloseTab(t) \/ SwitchTab(t)
    \/ CloseModal

Load ==
    \E p \in Page : Unload(p) \/ \E r \in Request : Ready(p, r)

Next == User \/ Tick \/ Load \/ \E r \in Request : Answers(r)

(* Timers run and every request is answered or times out after 300 s        *)
(* (base.page.jqXhr.timeout).  The user owes nothing.                       *)
Fairness == WF_vars(Tick) /\ \A r \in Request : WF_vars(Answers(r))
Spec == Init /\ [][Next]_vars /\ Fairness
-----------------------------------------------------------------------------
(* Once every transition has ended, what is left on the screen is what is   *)
(* shown: no backdrop without its dialog covers the page, no dialog that    *)
(* was hidden early is displayed again by a late callback, no removed       *)
(* element stays, and the body scrolls again when nothing is shown.         *)
AtRestClean ==
    timers = <<>> =>
        /\ backdrop = shown /\ up = shown /\ moving = {}
        /\ \A d \in Box : InBoxes(d) <=> d \in shown
        /\ bodyOpen => shown # {}

(* At rest the modal's iframe holds its page exactly while the modal is     *)
(* shown, although a modal closed at once is still told that it was shown.  *)
ModalPageMatches == timers = <<>> => (frame = "page" <=> Modal \in shown)

(* The tab that is shown is an open one, and there is one while any is.     *)
ActiveIsOpen == IF tabs = <<>> THEN active = None ELSE InTabs(active)

(* A wait dialog stays for ever only when its request was lost with a page  *)
(* that was on its way out when it sent it, or that the user sent away      *)
(* before the wait dialog was up.                                           *)
StuckOnlyIfHasty ==
    \A r \in Request : req[r] = "lost" /\ r \in shown => r \in hasty

Answered == \E r \in Request : req[r] = "sent" /\ req'[r] = "answered"

(* A wait dialog leaves a request that is still on its way only because     *)
(* another request was answered.                                            *)
WaitCoversRequest ==
    [][\A r \in Request :
          req[r] = "sent" /\ r \in shown /\ r \notin shown' /\ req'[r] = "sent"
          => Answered]_vars

(* Once a wait dialog has come up completely and until it is hidden, no     *)
(* click and no key sends another request: only a page whose request was    *)
(* answered, or that has just loaded, does.                                 *)
SettledWaitProtects ==
    [][\A q \in Request :
          (\E r \in Request : Settled(r)) /\ req[q] = "unsent" /\ req'[q] = "sent"
          => \/ \E a \in Request :
                  req[a] = "sent" /\ req'[a] = "answered" /\ from[a] = from'[q]
             \/ from'[q] \in loading \ loading']_vars

(* Every wait dialog goes, unless its request was lost.                     *)
WaitEnds ==
    \A r \in Request :
        (req[r] = "sent" /\ r \in shown) ~> (~InBoxes(r) \/ req[r] = "lost")
=============================================================================
