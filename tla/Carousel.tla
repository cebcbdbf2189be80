------------------------------ MODULE Carousel ------------------------------
(***************************************************************************)
(* The product page's service carousel, scripts/single-product.js: one     *)
(* script that pages, drags and selects cards, whose state is in the       *)
(* closure of its DOMContentLoaded handler, and a second one that rechecks *)
(* the same two arrow buttons.  Every handler runs to its end before the   *)
(* next event.  The window, the pointer and the scroll geometry are        *)
(* external; pixels are abstracted to what the handlers compare them with. *)
(***************************************************************************)
EXTENDS Integers

CONSTANT NCards
ASSUME NCardsAssumption == NCards \in Nat \ {0}   \* without cards nothing is set up

Cards == 0..(NCards - 1)
Modes == {"mobile", "tablet", "desktop"}

(* How far the pointer was dragged: not at all; too little for a swipe     *)
(* unless it was quick; more than 100 pixels.  Negative is to the left.    *)
Distances == {-2, -1, 0, 1, 2}

VARIABLES
  width,              \* what getViewMode reads from the window
  pressed,            \* a button or a finger is down: "no", "cards" (since a press on
                      \* the container), "elsewhere"
  viewMode, cardsPerView, currentIndex, selectedCard,
  isDragging, hasDragged, dragDistance,
  dragStyle,          \* class "dragging" and userSelect "none" are set
  listening,          \* the touch handlers are attached
  resizeTimeout,      \* a resize waits for its 150 ms
  shown,              \* the cards whose style.display is "block"
  leftDisabled, rightDisabled,
  recheck             \* the second script will look at the arrows again

drag == <<isDragging, hasDragged, dragDistance, dragStyle>>
page == <<cardsPerView, currentIndex, shown, leftDisabled, rightDisabled>>
mode == <<viewMode, listening>>
vars == <<width, pressed, mode, selectedCard, drag, resizeTimeout, page, recheck>>

PerView(m) == CASE m = "mobile" -> 1 [] m = "tablet" -> 2 [] m = "desktop" -> 3

(* Math.max(0, serviceCards.length - cardsPerView) *)
MaxIndex(perView) == IF NCards > perView THEN NCards - perView ELSE 0

TypeOK ==
  /\ width \in Modes /\ viewMode \in Modes
  /\ cardsPerView \in 1..3
  /\ currentIndex \in 0..MaxIndex(cardsPerView)
  /\ selectedCard \in Nat
  /\ dragDistance \in Distances
  /\ shown \subseteq Cards
  /\ pressed \in {"no", "cards", "elsewhere"}
  /\ isDragging \in BOOLEAN /\ hasDragged \in BOOLEAN
  /\ dragStyle \in BOOLEAN /\ listening \in BOOLEAN /\ resizeTimeout \in BOOLEAN
  /\ leftDisabled \in BOOLEAN /\ rightDisabled \in BOOLEAN /\ recheck \in BOOLEAN

-----------------------------------------------------------------------------
(* updateCarouselDisplay with updateArrowStates, for mode m and index i.   *)
Display(m, perView, i) ==
  /\ shown' = IF m = "mobile" THEN Cards
              ELSE {c \in Cards : i <= c /\ c < i + perView}
  /\ leftDisabled' = (i <= 0)
  /\ rightDisabled' = (i >= MaxIndex(perView))

(* A plausible bug: the index is not brought back into its new limits. *)
Fault_ConfigKeepsIndex(w) ==
  /\ viewMode' = w
  /\ cardsPerView' = PerView(w)
  /\ listening' = (w # "desktop")
  /\ currentIndex' = currentIndex
  /\ Display(w, PerView(w), currentIndex)

(* A plausible bug: the touch handlers are set up for phones only. *)
Fault_ConfigForgetsTablets(w) ==
  /\ viewMode' = w
  /\ cardsPerView' = PerView(w)
  /\ listening' = (w = "mobile")
  /\ LET limit == MaxIndex(PerView(w))
         index == IF currentIndex > limit THEN limit ELSE currentIndex
     IN  /\ currentIndex' = index
         /\ Display(w, PerView(w), index)

(* updateCarouselConfig for the mode of the window.                        *)
UpdateCarouselConfig(w) ==
  /\ viewMode' = w
  /\ cardsPerView' = PerView(w)
  /\ listening' = (w # "desktop")
  /\ LET limit == MaxIndex(PerView(w))
         index == IF currentIndex > limit THEN limit ELSE currentIndex
     IN  /\ currentIndex' = index
         /\ Display(w, PerView(w), index)

(* navigateToIndex; its callers pass a neighbour of currentIndex.          *)
NavigateToIndex(newIndex) ==
  LET limit == MaxIndex(cardsPerView)
      index == IF newIndex < 0 THEN 0 ELSE IF newIndex > limit THEN limit ELSE newIndex
  IN  /\ currentIndex' = index
      /\ cardsPerView' = cardsPerView
      /\ Display(viewMode, cardsPerView, index)

Previous == IF currentIndex > 0 THEN NavigateToIndex(currentIndex - 1)
                                ELSE UNCHANGED page

Following == IF currentIndex < MaxIndex(cardsPerView) THEN NavigateToIndex(currentIndex + 1)
                                                      ELSE UNCHANGED page

(* The state after the script has configured itself for the window.        *)
Init ==
  /\ width \in Modes /\ viewMode = width
  /\ cardsPerView = PerView(width)
  /\ currentIndex = 0 /\ selectedCard = 2
  /\ shown = IF width = "mobile" THEN Cards ELSE {c \in Cards : c < PerView(width)}
  /\ leftDisabled = TRUE /\ rightDisabled = (MaxIndex(PerView(width)) = 0)
  /\ listening = (width # "desktop")
  /\ isDragging = FALSE /\ hasDragged = FALSE /\ dragDistance = 0
  /\ dragStyle = FALSE /\ pressed = "no"
  /\ resizeTimeout = FALSE /\ recheck = FALSE

-----------------------------------------------------------------------------
(* A plausible bug: a second resize clears the timeout and sets no other. *)
Fault_TimeoutLost(w) ==
  /\ width' = w
  /\ resizeTimeout' = ~resizeTimeout
  /\ UNCHANGED <<pressed, mode, selectedCard, drag, page, recheck>>

(* A resize event, within a mode's range or out of it, restarts the       *)
(* timeout.                                                                *)
Resize(w) ==
  /\ width' = w
  /\ resizeTimeout' = TRUE
  /\ UNCHANGED <<pressed, mode, selectedCard, drag, page, recheck>>

ResizeTimeout ==
  /\ resizeTimeout
  /\ resizeTimeout' = FALSE
  /\ UpdateCarouselConfig(width)
  /\ UNCHANGED <<width, pressed, selectedCard, drag, recheck>>

(* mousedown or touchstart; handleDragStart if it is on the container.     *)
PointerDown(where) ==
  /\ pressed = "no"
  /\ pressed' = where
  /\ IF where = "cards" /\ listening /\ viewMode # "desktop"
     THEN /\ isDragging' = TRUE /\ hasDragged' = FALSE /\ dragStyle' = TRUE
          /\ dragDistance' = dragDistance
     ELSE UNCHANGED drag
  /\ UNCHANGED <<width, mode, selectedCard, resizeTimeout, page, recheck>>

(* handleDragMove.  A mouse also moves with no button down; a vertical or  *)
(* tiny move changes nothing.                                              *)
PointerMove(d) ==
  /\ listening /\ isDragging /\ viewMode # "desktop"
  /\ d # 0
  /\ hasDragged' = TRUE /\ dragDistance' = d
  /\ UNCHANGED <<width, pressed, mode, selectedCard, isDragging, dragStyle,
                 resizeTimeout, page, recheck>>

(* Where a swipe of the length dragged may leave the index: a long or a    *)
(* quick one turns the page, if there is one to turn to.                   *)
SwipeTargets ==
  LET before == IF currentIndex > 0 THEN currentIndex - 1 ELSE currentIndex
      after  == IF currentIndex < MaxIndex(cardsPerView) THEN currentIndex + 1 ELSE currentIndex
  IN  (IF dragDistance \in {-1, 0, 1} THEN {currentIndex} ELSE {})
        \union (IF dragDistance > 0 THEN {before} ELSE {})
        \union (IF dragDistance < 0 THEN {after} ELSE {})

(* mouseup or touchend, with handleDragEnd.                                *)
Release ==
  /\ pressed # "no"
  /\ pressed' = "no"
  /\ IF listening /\ isDragging /\ viewMode # "desktop"
     THEN /\ isDragging' = FALSE /\ hasDragged' = FALSE
          /\ dragDistance' = 0 /\ dragStyle' = FALSE
          /\ currentIndex' \in SwipeTargets
     ELSE UNCHANGED <<drag, currentIndex>>
  /\ UNCHANGED <<width, mode, cardsPerView, resizeTimeout, recheck>>

(* The pointer is released and no click follows that handleCardClick would *)
(* not ignore.                                                             *)
PointerUp ==
  /\ Release
  /\ selectedCard' = selectedCard
  /\ IF currentIndex' = currentIndex THEN UNCHANGED <<shown, leftDisabled, rightDisabled>>
                                     ELSE Display(viewMode, cardsPerView, currentIndex')

(* The pointer was pressed and is released over card c: the browser sends  *)
(* the mouseup and then, before anything else, the click.                  *)
CardClick(c) ==
  /\ pressed = "cards" /\ c \in shown
  /\ Release
  /\ ~hasDragged'
  /\ selectedCard' = c
  /\ Display(viewMode, cardsPerView, currentIndex')

(* The arrow buttons, of which a disabled one gets no click, and the arrow *)
(* keys.                                                                   *)
Arrow ==
  /\ viewMode # "mobile"
  /\ \/ ~leftDisabled /\ Previous
     \/ ~rightDisabled /\ Following
  /\ recheck' = TRUE
  /\ UNCHANGED <<width, pressed, mode, selectedCard, drag, resizeTimeout>>

Key ==
  /\ viewMode # "mobile"
  /\ Previous \/ Following
  /\ UNCHANGED <<width, pressed, mode, selectedCard, drag, resizeTimeout, recheck>>

(* The second script's updateArrows: 100 ms after a resize, so before the  *)
(* timeout; 400 ms after an arrow click; and when the cards are scrolled,  *)
(* which the narrow windows allow at any time.  It compares scrollLeft     *)
(* with what can be scrolled, which currentIndex does not determine.       *)
UpdateArrows ==
  /\ recheck \/ resizeTimeout \/ width # "desktop"
  /\ recheck' = FALSE
  /\ leftDisabled' \in BOOLEAN /\ rightDisabled' \in BOOLEAN
  /\ UNCHANGED <<width, pressed, mode, selectedCard, drag, resizeTimeout,
                 cardsPerView, currentIndex, shown>>

Next ==
  \/ \E w \in Modes : Resize(w)
  \/ ResizeTimeout
  \/ \E where \in {"cards", "elsewhere"} : PointerDown(where)
  \/ \E d \in Distances : PointerMove(d)
  \/ PointerUp
  \/ \E c \in Cards : CardClick(c)
  \/ Arrow \/ Key \/ UpdateArrows

Spec == Init /\ [][Next]_vars

-----------------------------------------------------------------------------
(***************************************************************************)
(* Properties.                                                             *)
(***************************************************************************)

(* Between a resize and its timeout the layout may be the old window's; at *)
(* any other time it is the window's, however many resizes there were.     *)
LayoutFollowsWindow == ~resizeTimeout => viewMode = width

(* Tablets and desktops always show a full page of consecutive cards, as   *)
(* many as there are up to cardsPerView: no resize, swipe, key or click    *)
(* leaves the page beyond the last card or shows it half empty.            *)
PageIsFull ==
  viewMode # "mobile" =>
    LET size == IF NCards < PerView(viewMode) THEN NCards ELSE PerView(viewMode)
    IN  shown = currentIndex..(currentIndex + size - 1)

(* Outside the desktop's layout a release leaves nothing of the drag       *)
(* behind: no drag that goes on without a button, no guard that eats the   *)
(* next click, no text that cannot be selected; not even when an earlier   *)
(* drag was cut off by a change of the layout.                             *)
Released == pressed # "no" /\ pressed' = "no"

ReleaseEndsDrag ==
  [][Released /\ viewMode # "desktop" => ~isDragging' /\ ~hasDragged' /\ ~dragStyle']_vars

(* The header's drag guard: no card is selected by scrolling, so a release *)
(* that ends a drag leaves the selection alone.  Violated: handleDragEnd   *)
(* clears hasDragged on mouseup, before the click asks for it.             *)
DragSelectsNothing == [][Released /\ hasDragged => selectedCard' = selectedCard]_vars
=============================================================================
