--------------------------- MODULE CarouselProofs ---------------------------
(***************************************************************************)
(* The page of the carousel is full and follows the window for any number  *)
(* of cards.  Every step either leaves the page alone or displays it anew  *)
(* for a mode, the mode's cardsPerView and an index within the limits;     *)
(* PageInv is what the latter establishes.                                 *)
(***************************************************************************)
EXTENDS Carousel, TLAPS

PageInv ==
  /\ viewMode \in Modes
  /\ cardsPerView = PerView(viewMode)
  /\ currentIndex \in 0..MaxIndex(cardsPerView)
  /\ shown \subseteq Cards
  /\ PageIsFull

(* Dragging, the drag's style and the guard go together, and the handlers  *)
(* are attached outside the desktop's layout.                              *)
DragInv ==
  /\ listening = (viewMode # "desktop")
  /\ dragStyle = isDragging
  /\ hasDragged => isDragging

IInv == TypeOK /\ PageInv /\ LayoutFollowsWindow /\ DragInv

LEMMA PerViewRange == \A m \in Modes : PerView(m) \in 1..3
BY DEF Modes, PerView

LEMMA MaxIndexRange == \A k \in 1..3 : MaxIndex(k) \in Nat
BY NCardsAssumption DEF MaxIndex

(* A page displayed for an index within the limits is full. *)
LEMMA DisplayedPage ==
  ASSUME viewMode' \in Modes, cardsPerView' = PerView(viewMode'),
         currentIndex' \in 0..MaxIndex(cardsPerView'),
         Display(viewMode', cardsPerView', currentIndex')
  PROVE  PageInv'
<1>1. cardsPerView' \in 1..3
  BY PerViewRange
<1>2. shown' \subseteq Cards
  BY Zenon DEF Display
<1>3. PageIsFull'
  <2> SUFFICES ASSUME viewMode' # "mobile"
               PROVE  LET size == IF NCards < PerView(viewMode') THEN NCards ELSE PerView(viewMode')
                      IN  shown' = currentIndex'..(currentIndex' + size - 1)
    BY Zenon DEF PageIsFull
  <2>1. shown' = {c \in Cards : currentIndex' <= c /\ c < currentIndex' + cardsPerView'}
    BY Zenon DEF Display
  <2> QED
    BY <1>1, <2>1, NCardsAssumption DEF Cards, MaxIndex
<1> QED
  BY <1>2, <1>3, Zenon DEF PageInv

(* Displaying a page sets the arrows' flags to truth values. *)
LEMMA ArrowsTyped ==
  ASSUME NEW m, NEW p \in Int, NEW i \in Int, Display(m, p, i)
  PROVE  leftDisabled' \in BOOLEAN /\ rightDisabled' \in BOOLEAN
<1>1. leftDisabled' = (i <= 0) /\ rightDisabled' = (i >= MaxIndex(p))
  BY Zenon DEF Display
<1>2. (i <= 0) \in BOOLEAN /\ (i >= MaxIndex(p)) \in BOOLEAN
  OBVIOUS
<1> QED
  BY <1>1, <1>2, Zenon

(* updateCarouselConfig brings the index within the new limits. *)
LEMMA ConfigPage ==
  ASSUME IInv, NEW w \in Modes, UpdateCarouselConfig(w)
  PROVE  PageInv' /\ leftDisabled' \in BOOLEAN /\ rightDisabled' \in BOOLEAN
<1> DEFINE limit == MaxIndex(PerView(w))
           index == IF currentIndex > limit THEN limit ELSE currentIndex
<1>1. /\ viewMode' = w /\ cardsPerView' = PerView(w)
      /\ currentIndex' = index /\ Display(w, PerView(w), index)
  BY Zenon DEF UpdateCarouselConfig
<1>2. limit \in Nat /\ currentIndex \in Nat
  BY PerViewRange, MaxIndexRange DEF IInv, PageInv
<1>3. index \in 0..limit
  BY <1>2
<1>4. PageInv'
  BY <1>1, <1>3, DisplayedPage
<1>5. PerView(w) \in Int /\ index \in Int
  BY <1>2, <1>3, PerViewRange
<1> QED
  BY <1>1, <1>4, <1>5, ArrowsTyped, Zenon

(* navigateToIndex keeps the index within the limits. *)
LEMMA NavigatePage ==
  ASSUME IInv, UNCHANGED viewMode, Previous \/ Following
  PROVE  PageInv' /\ leftDisabled' \in BOOLEAN /\ rightDisabled' \in BOOLEAN
<1>1. cardsPerView \in 1..3 /\ MaxIndex(cardsPerView) \in Nat /\ currentIndex \in 0..MaxIndex(cardsPerView)
      /\ cardsPerView = PerView(viewMode) /\ viewMode \in Modes
  BY PerViewRange, MaxIndexRange DEF IInv, PageInv
<1>2. ASSUME NEW i \in Int, NavigateToIndex(i)
      PROVE  PageInv' /\ leftDisabled' \in BOOLEAN /\ rightDisabled' \in BOOLEAN
  <2> DEFINE limit == MaxIndex(cardsPerView)
             index == IF i < 0 THEN 0 ELSE IF i > limit THEN limit ELSE i
  <2>1. cardsPerView' = cardsPerView /\ currentIndex' = index /\ Display(viewMode, cardsPerView, index)
    BY <1>2, Zenon DEF NavigateToIndex
  <2>2. index \in 0..limit
    BY <1>1
  <2>3. PageInv'
    BY <1>1, <2>1, <2>2, DisplayedPage
  <2>4. cardsPerView \in Int /\ index \in Int
    BY <1>1, <2>2
  <2> QED
    BY <2>1, <2>3, <2>4, ArrowsTyped, Zenon
<1>3. ASSUME UNCHANGED page PROVE PageInv' /\ leftDisabled' \in BOOLEAN /\ rightDisabled' \in BOOLEAN
  <2>1. leftDisabled \in BOOLEAN /\ rightDisabled \in BOOLEAN /\ PageInv
    BY Zenon DEF IInv, TypeOK
  <2> QED
    BY <1>3, <2>1, Zenon DEF page, PageInv, PageIsFull
<1>4. currentIndex - 1 \in Int /\ currentIndex + 1 \in Int
  BY <1>1
<1> QED
  BY <1>2, <1>3, <1>4, Zenon DEF Previous, Following

-----------------------------------------------------------------------------
(* The initial states satisfy the invariant. *)
LEMMA InitIInv == Init => IInv
<1> SUFFICES ASSUME Init PROVE IInv
  OBVIOUS
<1>1. /\ viewMode \in Modes /\ width = viewMode /\ cardsPerView = PerView(viewMode)
      /\ cardsPerView \in 1..3 /\ currentIndex = 0 /\ selectedCard = 2 /\ dragDistance = 0
  BY PerViewRange, Zenon DEF Init
<1>2. MaxIndex(cardsPerView) \in Nat
  BY <1>1, MaxIndexRange
<1>3. shown \subseteq Cards
  BY Zenon DEF Init
<1>4. PageIsFull
  <2> SUFFICES ASSUME viewMode # "mobile"
               PROVE  LET size == IF NCards < PerView(viewMode) THEN NCards ELSE PerView(viewMode)
                      IN  shown = currentIndex..(currentIndex + size - 1)
    BY Zenon DEF PageIsFull
  <2>1. shown = {c \in Cards : c < cardsPerView}
    BY <1>1, Zenon DEF Init
  <2> QED
    BY <1>1, <2>1, NCardsAssumption DEF Cards
<1>5. PageInv
  BY <1>1, <1>2, <1>3, <1>4 DEF PageInv
<1>6. TypeOK
  <2>1. /\ pressed = "no" /\ isDragging \in BOOLEAN /\ hasDragged \in BOOLEAN
        /\ dragStyle \in BOOLEAN /\ listening \in BOOLEAN /\ resizeTimeout \in BOOLEAN
        /\ leftDisabled \in BOOLEAN /\ rightDisabled \in BOOLEAN /\ recheck \in BOOLEAN
    BY Zenon DEF Init
  <2>2. selectedCard \in Nat /\ dragDistance \in Distances
    BY <1>1 DEF Distances
  <2> QED
    BY <1>1, <1>5, <2>1, <2>2, Zenon DEF TypeOK, PageInv
<1>7. DragInv
  BY Zenon DEF Init, DragInv
<1> QED
  BY <1>1, <1>5, <1>6, <1>7, Zenon DEF IInv, LayoutFollowsWindow

(* A release leaves the index within its limits. *)
LEMMA ReleasedIndex ==
  ASSUME IInv, Release
  PROVE  currentIndex' \in 0..MaxIndex(cardsPerView)
<1>1. cardsPerView \in 1..3 /\ MaxIndex(cardsPerView) \in Nat /\ currentIndex \in 0..MaxIndex(cardsPerView)
  BY PerViewRange, MaxIndexRange DEF IInv, PageInv
<1>2. CASE currentIndex' \in SwipeTargets
  <2> DEFINE before == IF currentIndex > 0 THEN currentIndex - 1 ELSE currentIndex
             after == IF currentIndex < MaxIndex(cardsPerView) THEN currentIndex + 1 ELSE currentIndex
  <2>1. currentIndex' \in {currentIndex, before, after}
    BY <1>2, Zenon DEF SwipeTargets
  <2> QED
    BY <1>1, <2>1
<1>3. CASE currentIndex' = currentIndex
  BY <1>1, <1>3
<1> QED
  BY <1>2, <1>3, Zenon DEF Release

(* What a step does to the pointer's state is well typed. *)
LEMMA PointerTyped ==
  ASSUME IInv, Next
  PROVE  /\ pressed' \in {"no", "cards", "elsewhere"} /\ isDragging' \in BOOLEAN
         /\ hasDragged' \in BOOLEAN
         /\ dragStyle' \in BOOLEAN /\ recheck' \in BOOLEAN /\ resizeTimeout' \in BOOLEAN
         /\ dragDistance' \in Distances /\ selectedCard' \in Nat /\ width' \in Modes
<1>1. TypeOK
  BY Zenon DEF IInv
<1>2. Cards \subseteq Nat /\ 0 \in Distances
  BY NCardsAssumption DEF Cards, Distances
<1>3. /\ isDragging' \in BOOLEAN /\ hasDragged' \in BOOLEAN
      /\ dragStyle' \in BOOLEAN /\ recheck' \in BOOLEAN /\ resizeTimeout' \in BOOLEAN
  BY <1>1, Zenon DEF TypeOK, Next, Resize, ResizeTimeout, PointerDown, PointerMove, PointerUp,
     Release, CardClick, Arrow, Key, UpdateArrows, drag
<1>4. dragDistance' \in Distances
  BY <1>1, <1>2, Zenon DEF TypeOK, Next, Resize, ResizeTimeout, PointerDown, PointerMove,
     PointerUp, Release, CardClick, Arrow, Key, UpdateArrows, drag
<1>5. selectedCard' \in Nat
  BY <1>1, <1>2 DEF TypeOK, Next, Resize, ResizeTimeout, PointerDown, PointerMove,
     PointerUp, CardClick, Arrow, Key, UpdateArrows
<1>6. width' \in Modes
  BY <1>1, Zenon DEF TypeOK, Next, Resize, ResizeTimeout, PointerDown, PointerMove,
     PointerUp, Release, CardClick, Arrow, Key, UpdateArrows
<1>7. pressed' \in {"no", "cards", "elsewhere"}
  BY <1>1 DEF TypeOK, Next, Resize, ResizeTimeout, PointerDown, PointerMove,
     PointerUp, Release, CardClick, Arrow, Key, UpdateArrows
<1> QED
  BY <1>3, <1>4, <1>5, <1>6, <1>7

(* A step keeps the drag's state together. *)
LEMMA DragStep ==
  ASSUME IInv, Next
  PROVE  DragInv'
<1>1. TypeOK /\ DragInv
  BY Zenon DEF IInv
<1>2. CASE ResizeTimeout
  <2>1. UNCHANGED drag /\ UpdateCarouselConfig(width)
    BY <1>2, Zenon DEF ResizeTimeout
  <2> QED
    BY <1>1, <2>1, Zenon DEF DragInv, drag, UpdateCarouselConfig
<1>3. CASE ~ResizeTimeout
  <2>1. UNCHANGED mode
    BY <1>3, Zenon DEF Next, Resize, PointerDown, PointerMove, PointerUp, Release, CardClick,
       Arrow, Key, UpdateArrows
  <2>2. \/ UNCHANGED drag
        \/ isDragging' = TRUE /\ hasDragged' = FALSE /\ dragStyle' = TRUE
        \/ isDragging /\ hasDragged' = TRUE /\ UNCHANGED <<isDragging, dragStyle>>
        \/ isDragging' = FALSE /\ hasDragged' = FALSE /\ dragStyle' = FALSE
    BY <1>3, Zenon DEF Next, Resize, PointerDown, PointerMove, PointerUp, Release, CardClick,
       Arrow, Key, UpdateArrows
  <2>3. listening' = (viewMode' # "desktop")
    BY <1>1, <2>1, Zenon DEF DragInv, mode
  <2>4. dragStyle' = isDragging' /\ (hasDragged' => isDragging')
    <3>1. CASE UNCHANGED drag
      BY <1>1, <3>1, Zenon DEF DragInv, drag
    <3>2. CASE isDragging' = TRUE /\ hasDragged' = FALSE /\ dragStyle' = TRUE
      BY <3>2, Zenon
    <3>3. CASE isDragging /\ hasDragged' = TRUE /\ UNCHANGED <<isDragging, dragStyle>>
      BY <1>1, <3>3, Zenon DEF DragInv
    <3>4. CASE isDragging' = FALSE /\ hasDragged' = FALSE /\ dragStyle' = FALSE
      BY <3>4, Zenon
    <3> QED
      BY <2>2, <3>1, <3>2, <3>3, <3>4, Zenon
  <2> QED
    BY <2>3, <2>4, Zenon DEF DragInv
<1> QED
  BY <1>2, <1>3

(* A step shows a full page and keeps to the layout of the window. *)
LEMMA PageStep ==
  ASSUME IInv, Next
  PROVE  /\ PageInv' /\ LayoutFollowsWindow'
         /\ leftDisabled' \in BOOLEAN /\ rightDisabled' \in BOOLEAN /\ listening' \in BOOLEAN
<1>1. TypeOK /\ PageInv /\ LayoutFollowsWindow
  BY Zenon DEF IInv
<1>2. CASE ResizeTimeout
  <2>1. width \in Modes /\ UpdateCarouselConfig(width) /\ width' = width
    BY <1>1, <1>2, Zenon DEF TypeOK, ResizeTimeout
  <2>2. viewMode' = width' /\ listening' \in BOOLEAN
    BY <2>1, Zenon DEF UpdateCarouselConfig
  <2> QED
    BY <2>1, <2>2, ConfigPage, Zenon DEF LayoutFollowsWindow
<1>3. CASE ~ResizeTimeout
  <2>1. UNCHANGED mode
    BY <1>3, Zenon DEF Next, Resize, PointerDown, PointerMove, PointerUp, Release, CardClick, Arrow, Key,
       UpdateArrows
  <2>2. LayoutFollowsWindow'
    BY <1>1, <1>3, <2>1 DEF LayoutFollowsWindow, mode, Next, Resize, PointerDown, PointerMove,
       PointerUp, Release, CardClick, Arrow, Key, UpdateArrows
  <2>3. viewMode' = viewMode /\ listening' \in BOOLEAN
    BY <1>1, <2>1, Zenon DEF TypeOK, mode
  <2>4. CASE Previous \/ Following
    BY <2>2, <2>3, <2>4, NavigatePage, Zenon
  <2>5. CASE Release /\ Display(viewMode, cardsPerView, currentIndex')
    <3>1. cardsPerView' = cardsPerView /\ currentIndex' \in 0..MaxIndex(cardsPerView)
      BY <2>5, ReleasedIndex, Zenon DEF Release
    <3>2. PageInv'
      BY <1>1, <2>3, <2>5, <3>1, DisplayedPage DEF PageInv
    <3>3. cardsPerView \in Int /\ currentIndex' \in Int
      BY <1>1, <3>1, PerViewRange, MaxIndexRange DEF PageInv
    <3> QED
      BY <2>2, <2>3, <2>5, <3>2, <3>3, ArrowsTyped, Zenon
  <2>6. CASE UNCHANGED <<cardsPerView, currentIndex, shown>>
             /\ leftDisabled' \in BOOLEAN /\ rightDisabled' \in BOOLEAN
    BY <1>1, <2>2, <2>3, <2>6, Zenon DEF PageInv, PageIsFull
  <2>7. leftDisabled \in BOOLEAN /\ rightDisabled \in BOOLEAN
    BY <1>1, Zenon DEF TypeOK
  <2>8. CASE UNCHANGED page
    BY <2>6, <2>7, <2>8, Zenon DEF page
  <2>9. CASE UpdateArrows
    BY <2>6, <2>9, Zenon DEF UpdateArrows
  <2>10. CASE PointerUp \/ \E c \in Cards : CardClick(c)
    BY <2>5, <2>6, <2>7, <2>10, Zenon DEF PointerUp, CardClick, Release
  <2>11. CASE Arrow \/ Key
    BY <2>4, <2>11, Zenon DEF Arrow, Key
  <2>12. CASE \/ \E w \in Modes : Resize(w)
              \/ \E where \in {"cards", "elsewhere"} : PointerDown(where)
              \/ \E d \in Distances : PointerMove(d)
    BY <2>8, <2>12, Zenon DEF Resize, PointerDown, PointerMove
  <2> QED
    BY <1>3, <2>9, <2>10, <2>11, <2>12, Zenon DEF Next
<1> QED
  BY <1>2, <1>3

LEMMA NextIInv == IInv /\ [Next]_vars => IInv'
<1> SUFFICES ASSUME IInv, [Next]_vars PROVE IInv'
  OBVIOUS
<1>1. CASE UNCHANGED vars
  BY <1>1, Zenon DEF vars, drag, page, mode, IInv, TypeOK, PageInv, PageIsFull,
     LayoutFollowsWindow, DragInv
<1>2. CASE Next
  <2>1. PageInv' /\ LayoutFollowsWindow'
    BY <1>2, PageStep
  <2>2. cardsPerView' \in 1..3
    BY <2>1, PerViewRange DEF PageInv
  <2>3. TypeOK'
    BY <1>2, <2>1, <2>2, PointerTyped, PageStep, Zenon DEF TypeOK, PageInv
  <2> QED
    BY <1>2, <2>1, <2>3, DragStep, Zenon DEF IInv
<1> QED
  BY <1>1, <1>2

(* The index never leaves its limits, and the rest has its type. *)
THEOREM TypeCorrect == Spec => []TypeOK
<1>1. IInv => TypeOK
  BY Zenon DEF IInv
<1> QED
  BY <1>1, InitIInv, NextIInv, PTL DEF Spec

(* Tablets and desktops always show a full page. *)
THEOREM AlwaysAFullPage == Spec => []PageIsFull
<1>1. IInv => PageIsFull
  BY Zenon DEF IInv, PageInv
<1> QED
  BY <1>1, InitIInv, NextIInv, PTL DEF Spec

(* The layout follows the window however resizes and timeouts interleave. *)
THEOREM LayoutIsTheWindows == Spec => []LayoutFollowsWindow
<1>1. IInv => LayoutFollowsWindow
  BY Zenon DEF IInv
<1> QED
  BY <1>1, InitIInv, NextIInv, PTL DEF Spec

(* Outside the desktop's layout a release ends the drag completely. *)
THEOREM ReleasesAreClean == Spec => ReleaseEndsDrag
<1>1. IInv /\ [Next]_vars =>
        [Released /\ viewMode # "desktop" => ~isDragging' /\ ~hasDragged' /\ ~dragStyle']_vars
  <2> SUFFICES ASSUME IInv, Next, Released, viewMode # "desktop"
               PROVE  ~isDragging' /\ ~hasDragged' /\ ~dragStyle'
    BY Zenon
  <2>1. Release
    BY Zenon DEF Released, Next, Resize, ResizeTimeout, PointerDown, PointerMove, PointerUp,
       CardClick, Arrow, Key, UpdateArrows
  <2>2. TypeOK /\ DragInv
    BY Zenon DEF IInv
  <2> QED
    BY <2>1, <2>2, Zenon DEF Release, DragInv, TypeOK, drag
<1> QED
  BY <1>1, InitIInv, NextIInv, PTL DEF Spec, ReleaseEndsDrag
=============================================================================
