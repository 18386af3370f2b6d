------------------------ MODULE FoodHausOrderProofs ------------------------
(* The clicks on the menu cannot fail unless an answer of Firebase came    *)
(* late: for every menu, every number of screens, queries and accounts.    *)
EXTENDS FoodHausOrder, SequenceTheorems, TLAPS

(* The counts of the cells are covered by the stored items.                *)
Covered == \A p \in Products : buyCount[p] <= names[p]

(* What the clicks rely on.  The counts need not be covered while "init"   *)
(* is set, since the menu is then not in front and will be reloaded.       *)
MenuInv ==
    /\ names \in [Products -> Nat]
    /\ hasName \in BOOLEAN
    /\ init \in BOOLEAN
    /\ late \in BOOLEAN
    /\ buyCount \in [Products -> Nat]
    /\ cellItems \in [Products -> [Products -> Nat]]
    /\ ~hasName => names = NoItems
    /\ ~late /\ ~init => Covered
    /\ ~late /\ screen = "menu" => ~init

(* An empty cart is a cart.                                                 *)
LEMMA NoItemsType == NoItems \in [Products -> Nat]
BY DEF NoItems

(* Coming back to the menu reloads it when the flag says so.               *)
LEMMA AppearKeeps ==
    ASSUME MenuInv, NEW reInit \in BOOLEAN, viewWillAppear(reInit),
           init => reInit,
           UNCHANGED <<names, hasName, late>>
    PROVE  MenuInv'
<1>1. CASE reInit
  <2>1. buyCount' = NoItems /\ cellItems' = [p \in Products |-> NoItems]
    BY <1>1 DEF viewWillAppear, initData
  <2>2. Covered'
    BY <2>1 DEF MenuInv, Covered, NoItems
  <2> QED
    BY <2>1, <2>2, NoItemsType DEF MenuInv, viewWillAppear, NoItems
<1>2. CASE ~reInit
  <2>1. /\ buyCount' = buyCount /\ cellItems' = cellItems /\ names' = names
        /\ hasName' = hasName /\ late' = late /\ init = FALSE
    BY <1>2 DEF viewWillAppear, view, MenuInv
  <2>2. Covered' <=> Covered
    BY <2>1 DEF Covered
  <2>3. init' = FALSE
    BY DEF viewWillAppear
  <2>4. ~late' /\ ~init' => Covered'
    BY <2>1, <2>2 DEF MenuInv
  <2>5. names' \in [Products -> Nat] /\ buyCount' \in [Products -> Nat]
        /\ cellItems' \in [Products -> [Products -> Nat]]
    BY <2>1 DEF MenuInv
  <2>6. hasName' \in BOOLEAN /\ late' \in BOOLEAN /\ (~hasName' => names' = NoItems)
    BY <2>1 DEF MenuInv
  <2> QED
    BY <2>3, <2>4, <2>5, <2>6 DEF MenuInv
<1> QED
  BY <1>1, <1>2

(* A step that leaves the cart, the cells and the flag alone.              *)
LEMMA IdleKeeps ==
    ASSUME MenuInv, UNCHANGED <<names, hasName, init, late, buyCount, cellItems>>,
           screen' = "menu" => screen = "menu"
    PROVE  MenuInv'
<1>1. Covered' <=> Covered
  BY DEF Covered
<1> QED
  BY <1>1 DEF MenuInv

(* A crash of the app keeps MenuInv.                                        *)
LEMMA CrashKeeps ==
    ASSUME MenuInv, Crash
    PROVE  MenuInv'
<1>1. UNCHANGED <<names, hasName, init, late, buyCount, cellItems>> /\ screen' # "menu"
  BY DEF Crash, view
<1> QED
  BY <1>1, IdleKeeps

(* Adding an item keeps MenuInv.                                            *)
LEMMA AddKeeps ==
    ASSUME MenuInv, screen = "menu", NEW p \in Products, NEW items \in [Products -> Nat],
           AddItem(p, items), ~late => \A q \in Products : names[q] <= items[q]
    PROVE  MenuInv'
<1>1. /\ names' = [items EXCEPT ![p] = @ + 1]
      /\ hasName' = TRUE
      /\ cellItems' = [cellItems EXCEPT ![p] = names']
      /\ buyCount' = [buyCount EXCEPT ![p] = @ + 1]
      /\ UNCHANGED <<init, late, screen>>
  BY DEF AddItem, SaveNames
<1>2. names' \in [Products -> Nat] /\ buyCount' \in [Products -> Nat]
  BY <1>1 DEF MenuInv
<1>3. cellItems' \in [Products -> [Products -> Nat]]
  BY <1>1, <1>2 DEF MenuInv
<1>4. ASSUME ~late PROVE Covered'
  <2>1. SUFFICES ASSUME NEW q \in Products PROVE buyCount'[q] <= names'[q]
    BY DEF Covered
  <2>2. buyCount[q] <= names[q] /\ names[q] <= items[q]
    BY <1>4 DEF MenuInv, Covered
  <2>3. buyCount[q] \in Nat /\ names[q] \in Nat /\ items[q] \in Nat
    BY DEF MenuInv
  <2>4. CASE q = p
    BY <1>1, <2>2, <2>3, <2>4 DEF MenuInv
  <2>5. CASE q # p
    BY <1>1, <2>2, <2>3, <2>5 DEF MenuInv
  <2> QED
    BY <2>4, <2>5
<1> QED
  BY <1>1, <1>2, <1>3, <1>4 DEF MenuInv

(* A click on + keeps MenuInv.                                              *)
LEMMA PlusKeeps ==
    ASSUME MenuInv, NEW p \in Products, plusBtnClick(p)
    PROVE  MenuInv'
<1>1. screen = "menu"
  BY DEF plusBtnClick
<1>2. names \in [Products -> Nat] /\ cellItems[p] \in [Products -> Nat]
  BY DEF MenuInv
<1>3. CASE buyCount[p] = 0 /\ AddItem(p, IF hasName THEN names ELSE cellItems[p])
  <2>1. CASE hasName
    <3>1. AddItem(p, names)
      BY <1>3, <2>1
    <3>2. \A q \in Products : names[q] <= names[q]
      BY <1>2
    <3> QED
      BY <1>1, <1>2, <3>1, <3>2, AddKeeps
  <2>2. CASE ~hasName
    <3>1. AddItem(p, cellItems[p])
      BY <1>3, <2>2
    <3>2. \A q \in Products : names[q] <= cellItems[p][q]
      BY <1>2, <2>2 DEF MenuInv, NoItems
    <3> QED
      BY <1>1, <1>2, <3>1, <3>2, AddKeeps
  <2> QED
    BY <2>1, <2>2
<1>4. CASE AddItem(p, names)
  <2>1. \A q \in Products : names[q] <= names[q]
    BY <1>2
  <2> QED
    BY <1>1, <1>2, <1>4, <2>1, AddKeeps
<1>5. CASE Crash
  BY <1>5, CrashKeeps
<1> QED
  BY <1>3, <1>4, <1>5 DEF plusBtnClick

(* A click on - keeps MenuInv.                                              *)
LEMMA MinusKeeps ==
    ASSUME MenuInv, NEW p \in Products, minusBtnClick(p)
    PROVE  MenuInv'
<1>1. CASE hasName /\ names[p] > 0
  <2>1. /\ names' = [names EXCEPT ![p] = @ - 1]
        /\ hasName' = TRUE
        /\ cellItems' = [cellItems EXCEPT ![p] = names']
        /\ buyCount' = [buyCount EXCEPT ![p] = @ - 1]
        /\ buyCount[p] > 0
        /\ UNCHANGED <<init, late, screen>>
    BY <1>1 DEF minusBtnClick, SaveNames
  <2>2. names' \in [Products -> Nat] /\ buyCount' \in [Products -> Nat]
    BY <1>1, <2>1 DEF MenuInv
  <2>3. cellItems' \in [Products -> [Products -> Nat]]
    BY <2>1, <2>2 DEF MenuInv
  <2>4. ASSUME Covered PROVE Covered'
    <3>1. SUFFICES ASSUME NEW q \in Products PROVE buyCount'[q] <= names'[q]
      BY DEF Covered
    <3>2. buyCount[q] <= names[q] /\ buyCount[q] \in Nat /\ names[q] \in Nat
      BY <2>4 DEF MenuInv, Covered
    <3>3. CASE q = p
      BY <2>1, <3>2, <3>3 DEF MenuInv
    <3>4. CASE q # p
      BY <2>1, <3>2, <3>4 DEF MenuInv
    <3> QED
      BY <3>3, <3>4
  <2> QED
    BY <2>1, <2>2, <2>3, <2>4 DEF MenuInv
<1>2. CASE Crash
  BY <1>2, CrashKeeps
<1> QED
  BY <1>1, <1>2 DEF minusBtnClick

(* A row that is scrolled in again keeps MenuInv.                           *)
LEMMA ScrollKeeps ==
    ASSUME MenuInv, NEW p \in Products, cellForRowAt(p)
    PROVE  MenuInv'
<1>1. /\ buyCount' = [buyCount EXCEPT ![p] = 0]
      /\ cellItems' = [cellItems EXCEPT ![p] = NoItems]
      /\ UNCHANGED <<names, hasName, init, late, screen>>
  BY DEF cellForRowAt, defaults
<1>2. buyCount' \in [Products -> Nat] /\ cellItems' \in [Products -> [Products -> Nat]]
  BY <1>1, NoItemsType DEF MenuInv
<1>3. Covered => Covered'
  BY <1>1 DEF Covered, MenuInv
<1> QED
  BY <1>1, <1>2, <1>3 DEF MenuInv

(* Both resets: the flag is set, or the menu is reloaded at once.          *)
LEMMA AcceptedKeeps ==
    ASSUME MenuInv, NEW i \in DOMAIN checks, AnswerAccepted(i)
    PROVE  MenuInv'
<1>1. /\ names' = NoItems /\ hasName' = FALSE /\ init' = TRUE
      /\ late' = (screen = "menu")
      /\ UNCHANGED <<screen, buyCount, cellItems>>
  BY DEF AnswerAccepted, ResetCart, view
<1> QED
  BY <1>1, NoItemsType DEF MenuInv

(* Cancelling keeps MenuInv.                                                *)
LEMMA CancelKeeps ==
    ASSUME MenuInv, cancelButton
    PROVE  MenuInv'
<1>1. /\ names' = NoItems /\ hasName' = FALSE /\ init' = FALSE /\ late' = FALSE
      /\ buyCount' = NoItems /\ cellItems' = [p \in Products |-> NoItems]
  BY DEF cancelButton, ResetCart, viewWillAppear, initData
<1>2. Covered'
  BY <1>1 DEF Covered, NoItems
<1> QED
  BY <1>1, <1>2, NoItemsType DEF MenuInv

(* MenuInv holds when the app is first started.                             *)
LEMMA MenuInvInit == Init => MenuInv
<1> SUFFICES ASSUME Init PROVE MenuInv
  OBVIOUS
<1>1. names = NoItems /\ buyCount = NoItems /\ cellItems = [p \in Products |-> NoItems]
      /\ init = FALSE /\ hasName = FALSE /\ late = FALSE
  BY DEF Init
<1>2. Covered
  BY <1>1 DEF Covered, NoItems
<1> QED
  BY <1>1, <1>2, NoItemsType DEF MenuInv

(* Every step keeps MenuInv.                                                *)
LEMMA MenuInvStep == MenuInv /\ [Next]_vars => MenuInv'
<1> SUFFICES ASSUME MenuInv, [Next]_vars PROVE MenuInv'
  OBVIOUS
<1>a. init \in BOOLEAN
  BY DEF MenuInv
<1>1. CASE \E p \in Products : plusBtnClick(p) \/ minusBtnClick(p) \/ cellForRowAt(p)
  BY <1>1, PlusKeeps, MinusKeeps, ScrollKeeps
<1>2. CASE signOut \/ MenuToLogin \/ CheckButton \/ confirmButon \/ BackToCheck \/ Kill
           \/ \E i \in DOMAIN checks : AnswerRefused(i)
  <2>1. UNCHANGED <<names, hasName, init, late, buyCount, cellItems>>
        /\ (screen' = "menu" => screen = "menu")
    BY <1>2 DEF signOut, MenuToLogin, CheckButton, confirmButon, BackToCheck, Kill, AnswerRefused,
                defaults, view
  <2> QED
    BY <2>1, IdleKeeps
<1>3. CASE BackToMenu \/ BackToMenuButton \/ \E a \in Accounts : signIn(a)
  <2>1. viewWillAppear(init) /\ UNCHANGED <<names, hasName, late>>
    BY <1>3 DEF BackToMenu, BackToMenuButton, signIn
  <2> QED
    BY <1>a, <2>1, AppearKeeps
<1>4. ASSUME NEW k \in DOMAIN confirms, updateView(k) PROVE MenuInv'
  <2>1. CASE confirms[k] > 1
    <3>1. UNCHANGED <<names, hasName, init, late, buyCount, cellItems, screen>>
      BY <1>4, <2>1 DEF updateView, view
    <3> QED
      BY <3>1, IdleKeeps
  <2>2. CASE ~(confirms[k] > 1)
    <3>1. viewWillAppear(init) /\ UNCHANGED <<names, hasName, late>>
      BY <1>4, <2>2 DEF updateView
    <3> QED
      BY <1>a, <3>1, AppearKeeps
  <2> QED
    BY <2>1, <2>2
<1>5. CASE Launch
  <2>1. viewWillAppear(TRUE) /\ UNCHANGED <<names, hasName, late>>
    BY <1>5 DEF Launch
  <2> QED
    BY <2>1, AppearKeeps
<1>6. CASE cancelButton
  BY <1>6, CancelKeeps
<1>7. CASE \E i \in DOMAIN checks : AnswerAccepted(i)
  BY <1>7, AcceptedKeeps
<1>8. CASE UNCHANGED vars
  BY <1>8, IdleKeeps DEF vars, defaults, view
<1> QED
  BY <1>1, <1>2, <1>3, <1>4, <1>5, <1>6, <1>7, <1>8 DEF Next

(* The cells of the menu in front never count more than the cart holds,    *)
(* until an answer comes late.                                             *)
THEOREM CellsCorrect == Spec => []CellsWithinCart
<1>1. MenuInv => CellsWithinCart
  BY DEF MenuInv, CellsWithinCart, Covered
<1> QED
  BY <1>1, MenuInvInit, MenuInvStep, PTL DEF Spec

(* Without such an answer no step ends in the crash of a handler.          *)
LEMMA CrashingClick ==
    ASSUME MenuInv, Next, screen' = "crashed", ~late
    PROVE  FALSE
<1>1. CASE \E p \in Products : plusBtnClick(p) \/ minusBtnClick(p) \/ cellForRowAt(p)
  <2>1. PICK p \in Products : plusBtnClick(p) \/ minusBtnClick(p) \/ cellForRowAt(p)
    BY <1>1
  <2>2. screen = "menu"
    BY <2>1 DEF plusBtnClick, minusBtnClick, cellForRowAt
  <2>3. Covered /\ buyCount[p] \in Nat /\ names[p] \in Nat
    BY <2>2 DEF MenuInv
  <2>4. ASSUME buyCount[p] > 0 PROVE hasName /\ names[p] > 0
    BY <2>3, <2>4 DEF Covered, MenuInv, NoItems
  <2>5. screen' = screen
    BY <2>1, <2>4 DEF plusBtnClick, minusBtnClick, cellForRowAt, AddItem, SaveNames
  <2> QED
    BY <2>2, <2>5
<1>2. CASE ~ \E p \in Products : plusBtnClick(p) \/ minusBtnClick(p) \/ cellForRowAt(p)
  BY <1>2 DEF Next, signOut, MenuToLogin, signIn, CheckButton, confirmButon, cancelButton,
       AnswerRefused, AnswerAccepted, BackToMenu, BackToCheck, BackToMenuButton, updateView,
       Kill, Launch, viewWillAppear, Running, OnCheck
<1> QED
  BY <1>1, <1>2

(* No handler of the menu kills the app unless an answer came late.        *)
THEOREM CrashesCorrect == Spec => CrashesOnlyLate
<1>1. MenuInv /\ [Next]_vars => [screen' = "crashed" => late]_vars
  BY CrashingClick
<1> QED
  BY <1>1, MenuInvInit, MenuInvStep, PTL DEF Spec, CrashesOnlyLate

-----------------------------------------------------------------------------
(* The check-out screen in front shows the cart.                           *)

(* The fields of a CheckViewController; of the amounts nothing is needed.  *)
Screens(T) == [items : [Products -> Nat], subtotal : T, user : Accounts \cup {NoUser},
               pending : Int]

ChecksOK == \E T : checks \in Seq(Screens(T))

Front == checks[Len(checks)]

FrontShowsCart ==
    screen = "check" =>
        checks # <<>> /\ Front.user \in Accounts /\ (names = NoItems \/ Front.items = names)

CheckInv ==
    /\ ChecksOK
    /\ confirms \in Seq(Int)
    /\ user \in Accounts \cup {NoUser}
    /\ DOMAIN menu = Accounts
    /\ FrontShowsCart

(* A screen over some open queries is one over more.                        *)
LEMMA ScreenMonotone ==
    ASSUME NEW T, NEW U, T \subseteq U
    PROVE  Screens(T) \subseteq Screens(U)
BY DEF Screens

(* A forgotten screen is a screen.                                          *)
LEMMA GoneIsScreen ==
    ASSUME NEW T
    PROVE  Gone \in Screens(T \cup {0})
BY NoItemsType DEF Gone, Screens

(* Screens that are replaced one by one remain screens.                    *)
LEMMA MappedScreens ==
    ASSUME NEW T, NEW s \in Seq(Screens(T)), NEW t \in [DOMAIN s -> Screens(T \cup {0})]
    PROVE  t \in Seq(Screens(T \cup {0})) /\ Len(t) = Len(s)
<1>1. DOMAIN s = 1 .. Len(s) /\ Len(s) \in Nat
  BY LenProperties
<1>2. t \in [1 .. Len(s) -> Screens(T \cup {0})]
  BY <1>1
<1>3. t \in Seq(Screens(T \cup {0}))
  BY <1>1, <1>2, SeqDef
<1>4. Len(t) \in Nat /\ 1 .. Len(t) = 1 .. Len(s)
  BY <1>2, <1>3, LenProperties
<1>5. Len(t) <= Len(s) /\ Len(s) <= Len(t)
  BY <1>1, <1>4
<1> QED
  BY <1>1, <1>3, <1>4, <1>5

(* Retire forgets screens, but not the one in front.                       *)
LEMMA RetireKeeps ==
    ASSUME NEW T, NEW s \in Seq(Screens(T)), NEW inFront \in BOOLEAN
    PROVE  /\ Retire(s, inFront) \in Seq(Screens(T \cup {0}))
           /\ Len(Retire(s, inFront)) = Len(s)
           /\ inFront /\ s # <<>> => Retire(s, inFront)[Len(s)] = s[Len(s)]
<1> DEFINE t == Retire(s, inFront)
<1>1. \A i \in DOMAIN s : t[i] = s[i] \/ t[i] = Gone
  BY DEF Retire
<1>2. \A i \in DOMAIN s : s[i] \in Screens(T)
  OBVIOUS
<1>3. \A i \in DOMAIN s : t[i] \in Screens(T \cup {0})
  BY <1>1, <1>2, GoneIsScreen, ScreenMonotone
<1>4. t \in [DOMAIN s -> Screens(T \cup {0})]
  BY <1>3 DEF Retire
<1>5. t \in Seq(Screens(T \cup {0})) /\ Len(t) = Len(s)
  <2> HIDE DEF t
  <2> QED
    BY <1>4, MappedScreens
<1>6. ASSUME inFront, s # <<>> PROVE t[Len(s)] = s[Len(s)]
  <2>1. Len(s) \in DOMAIN s
    BY <1>6
  <2> QED
    BY <1>6, <2>1 DEF Retire
<1> QED
  BY <1>5, <1>6

(* Forgetting screens leaves a stack of screens.                            *)
LEMMA RetireAllKeeps ==
    ASSUME ChecksOK, checks' = RetireAll
    PROVE  ChecksOK'
<1>1. PICK T : checks \in Seq(Screens(T))
  BY DEF ChecksOK
<1> DEFINE t == RetireAll
<1>2. t \in [DOMAIN checks -> Screens(T \cup {0})]
  BY GoneIsScreen DEF RetireAll
<1> HIDE DEF t
<1>3. t \in Seq(Screens(T \cup {0}))
  BY <1>1, <1>2, MappedScreens
<1>4. checks' = t
  BY DEF t
<1> QED
  BY <1>3, <1>4 DEF ChecksOK

(* Another number of queries leaves the rest of a screen alone.            *)
LEMMA PendingKeeps ==
    ASSUME NEW T, checks \in Seq(Screens(T)), NEW i \in DOMAIN checks, NEW n \in Int
    PROVE  LET screen_i == [checks[i] EXCEPT !.pending = n]
           IN  /\ screen_i \in Screens(T)
               /\ screen_i.items = checks[i].items /\ screen_i.user = checks[i].user
<1>1. checks[i] \in Screens(T)
  OBVIOUS
<1> QED
  BY <1>1 DEF Screens

(* A screen that is replaced keeps its items and its user.                  *)
LEMMA ReplacedKeeps ==
    ASSUME NEW T, checks \in Seq(Screens(T)), NEW i \in DOMAIN checks, NEW r \in Screens(T),
           r.items = checks[i].items, r.user = checks[i].user
    PROVE  LET t == [checks EXCEPT ![i] = r]
           IN  /\ t \in Seq(Screens(T)) /\ Len(t) = Len(checks)
               /\ \A j \in DOMAIN checks : t[j].items = checks[j].items /\ t[j].user = checks[j].user
<1> DEFINE t == [checks EXCEPT ![i] = r]
<1>1. t \in Seq(Screens(T)) /\ Len(t) = Len(checks)
  BY ExceptSeq, LenProperties
<1>2. \A j \in DOMAIN checks : t[j] = IF j = i THEN r ELSE checks[j]
  OBVIOUS
<1>3. \A j \in DOMAIN checks : t[j].items = checks[j].items /\ t[j].user = checks[j].user
  <2> HIDE DEF t
  <2> QED
    BY <1>2
<1> QED
  BY <1>1, <1>3

(* The answer to a query, whatever it does besides: the number of queries  *)
(* goes down, and the screens that are over are forgotten.                 *)
LEMMA AnswerKeeps ==
    ASSUME CheckInv, NEW i \in DOMAIN checks,
           checks' = Retire([checks EXCEPT ![i].pending = @ - 1], screen = "check"),
           UNCHANGED screen, names' \in {names, NoItems}
    PROVE  ChecksOK' /\ FrontShowsCart'
<1>1. PICK T : checks \in Seq(Screens(T))
  BY DEF CheckInv, ChecksOK
<1> DEFINE n == checks[i].pending - 1
           r == [checks[i] EXCEPT !.pending = n]
           t == [checks EXCEPT ![i] = r]
<1>2. n \in Int
  <2>1. checks[i] \in Screens(T)
    BY <1>1
  <2> QED
    BY <2>1 DEF Screens
<1>3. checks' = Retire(t, screen = "check")
  OBVIOUS
<1>4. r \in Screens(T) /\ r.items = checks[i].items /\ r.user = checks[i].user
  <2> HIDE DEF n
  <2> QED
    BY <1>1, <1>2, PendingKeeps
<1> HIDE DEF r
<1>5. /\ t \in Seq(Screens(T)) /\ Len(t) = Len(checks)
      /\ \A j \in DOMAIN checks : t[j].items = checks[j].items /\ t[j].user = checks[j].user
  BY <1>1, <1>4, ReplacedKeeps
<1> HIDE DEF t
<1>6. /\ checks' \in Seq(Screens(T \cup {0})) /\ Len(checks') = Len(t)
      /\ screen = "check" /\ t # <<>> => checks'[Len(t)] = t[Len(t)]
  BY <1>3, <1>5, RetireKeeps
<1>7. ChecksOK'
  BY <1>6 DEF ChecksOK
<1>8. ASSUME screen = "check"
      PROVE  checks' # <<>> /\ Front'.user \in Accounts /\ (names' = NoItems \/ Front'.items = names')
  <2>1. checks # <<>> /\ Front.user \in Accounts /\ (names = NoItems \/ Front.items = names)
    BY <1>8 DEF CheckInv, FrontShowsCart
  <2>2. Len(checks) \in DOMAIN checks /\ Len(checks) # 0
    BY <1>1, <2>1
  <2>3. t # <<>> /\ checks' # <<>>
    BY <1>5, <1>6, <2>2
  <2>4. Front'.items = Front.items /\ Front'.user = Front.user
    BY <1>5, <1>6, <1>8, <2>2, <2>3 DEF Front
  <2> QED
    BY <2>1, <2>3, <2>4
<1> QED
  BY <1>7, <1>8 DEF FrontShowsCart

(* Coming back to the menu, the check-out screens behind.                  *)
LEMMA LeaveKeeps ==
    ASSUME CheckInv, NEW reInit, viewWillAppear(reInit),
           checks' = Retire(checks, FALSE), UNCHANGED <<user, menu>>
    PROVE  CheckInv'
<1>1. PICK T : checks \in Seq(Screens(T))
  BY DEF CheckInv, ChecksOK
<1>2. ChecksOK'
  BY <1>1, RetireKeeps DEF ChecksOK
<1> QED
  BY <1>2 DEF CheckInv, FrontShowsCart, viewWillAppear

(* Steps that do not lead to the check-out screen and leave its list.      *)
LEMMA AwayKeeps ==
    ASSUME CheckInv, ChecksOK', screen' # "check", confirms' \in {confirms, <<>>},
           user' \in Accounts \cup {NoUser}, UNCHANGED menu
    PROVE  CheckInv'
<1>1. confirms' \in Seq(Int)
  BY EmptySeq DEF CheckInv
<1> QED
  BY <1>1 DEF CheckInv, FrontShowsCart

(* Signing in keeps CheckInv.                                               *)
LEMMA SignInKeeps ==
    ASSUME CheckInv, NEW a \in Accounts, signIn(a)
    PROVE  CheckInv'
<1>1. PICK T : checks \in Seq(Screens(T))
  BY DEF CheckInv, ChecksOK
<1>2. /\ checks' = [i \in DOMAIN checks |-> IF checks[i] = Gone THEN Gone
                                            ELSE [checks[i] EXCEPT !.user = a]]
      /\ user' = a /\ menu' = menu /\ screen' = "menu" /\ confirms' = <<>>
  BY DEF signIn, viewWillAppear
<1>3. \A i \in DOMAIN checks : checks'[i] \in Screens(T \cup {0})
  <2> SUFFICES ASSUME NEW i \in DOMAIN checks PROVE checks'[i] \in Screens(T \cup {0})
    OBVIOUS
  <2>1. checks[i] \in Screens(T)
    BY <1>1
  <2>2. [checks[i] EXCEPT !.user = a] \in Screens(T)
    BY <2>1 DEF Screens
  <2> QED
    BY <1>2, <2>2, GoneIsScreen, ScreenMonotone
<1>4. checks' = [i \in DOMAIN checks |-> checks'[i]]
  BY <1>2
<1>5. ChecksOK'
  BY <1>1, <1>3, <1>4, MappedScreens DEF ChecksOK
<1> QED
  BY <1>2, <1>5, AwayKeeps

(* A new screen shows the cart as it is.                                   *)
LEMMA CheckButtonKeeps ==
    ASSUME MenuInv, CheckInv, CheckButton
    PROVE  CheckInv'
<1>1. PICK T : checks \in Seq(Screens(T))
  BY DEF CheckInv, ChecksOK
<1> DEFINE new == [items |-> names, subtotal |-> total, user |-> user, pending |-> 0]
<1>2. /\ checks' = Append(checks, new) /\ user # NoUser
      /\ UNCHANGED <<names, user, confirms, menu>>
  BY DEF CheckButton, defaults
<1>3. new \in Screens(T \cup {total}) /\ new.user \in Accounts /\ new.items = names
  BY <1>2 DEF Screens, MenuInv, CheckInv
<1>4. checks \in Seq(Screens(T \cup {total}))
  BY <1>1, ScreenMonotone
<1> HIDE DEF new
<1>5. /\ checks' \in Seq(Screens(T \cup {total}))
      /\ checks' # <<>> /\ checks'[Len(checks')] = new
  BY <1>2, <1>3, <1>4
<1>6. ChecksOK'
  BY <1>5 DEF ChecksOK
<1>7. FrontShowsCart'
  BY <1>2, <1>3, <1>5 DEF FrontShowsCart, Front
<1> QED
  BY <1>2, <1>6, <1>7 DEF CheckInv

(* Confirming keeps CheckInv.                                               *)
LEMMA ConfirmKeeps ==
    ASSUME CheckInv, confirmButon
    PROVE  CheckInv'
<1>1. PICK T : checks \in Seq(Screens(T))
  BY DEF CheckInv, ChecksOK
<1> DEFINE i == Len(checks)
           n == checks[i].pending + 1
           r == [checks[i] EXCEPT !.pending = n]
<1>2. /\ screen = "check"
      /\ checks' = [checks EXCEPT ![i] = r]
      /\ UNCHANGED <<names, user, screen, confirms, menu>>
  BY DEF confirmButon, OnCheck, defaults
<1>3. i \in DOMAIN checks
  BY <1>1, <1>2 DEF CheckInv, FrontShowsCart
<1>4. n \in Int
  <2>1. checks[i] \in Screens(T)
    BY <1>1, <1>3
  <2> QED
    BY <2>1 DEF Screens
<1>5. r \in Screens(T) /\ r.items = checks[i].items /\ r.user = checks[i].user
  <2> HIDE DEF n, i
  <2> QED
    BY <1>1, <1>3, <1>4, PendingKeeps
<1> HIDE DEF r
<1>6. /\ checks' \in Seq(Screens(T)) /\ Len(checks') = i
      /\ checks'[i].items = checks[i].items /\ checks'[i].user = checks[i].user
  BY <1>1, <1>2, <1>3, <1>5, ReplacedKeeps
<1>7. ChecksOK'
  BY <1>6 DEF ChecksOK
<1>8. FrontShowsCart'
  BY <1>1, <1>2, <1>3, <1>6 DEF CheckInv, FrontShowsCart, Front
<1> QED
  BY <1>2, <1>7, <1>8 DEF CheckInv

(* CheckInv holds when the app is first started.                            *)
LEMMA CheckInvInit == Init => CheckInv
<1> SUFFICES ASSUME Init PROVE CheckInv
  OBVIOUS
<1>1. checks \in Seq(Screens({}))
  BY DEF Init
<1> QED
  BY <1>1 DEF Init, CheckInv, ChecksOK, FrontShowsCart

(* Every step keeps CheckInv.                                               *)
LEMMA CheckInvStep == MenuInv /\ CheckInv /\ [Next]_vars => CheckInv'
<1> SUFFICES ASSUME MenuInv, CheckInv, [Next]_vars PROVE CheckInv'
  OBVIOUS
<1>a. Countdown \in Int
  BY ConstantsAssumption
<1>b. ChecksOK /\ user \in Accounts \cup {NoUser} /\ confirms \in Seq(Int)
  BY DEF CheckInv
<1>1. ASSUME NEW p \in Products, plusBtnClick(p) \/ minusBtnClick(p) \/ cellForRowAt(p)
      PROVE  CheckInv'
  <2>1. UNCHANGED <<user, confirms, menu>> /\ screen' # "check"
        /\ (checks' = checks \/ checks' = RetireAll)
    BY <1>1 DEF plusBtnClick, minusBtnClick, cellForRowAt, AddItem, SaveNames, Crash
  <2>2. ChecksOK'
    BY <1>b, <2>1, RetireAllKeeps DEF ChecksOK
  <2> QED
    BY <1>b, <2>1, <2>2, AwayKeeps
<1>2. CASE signOut \/ MenuToLogin \/ Launch
  <2>1. checks' = checks /\ menu' = menu /\ screen' # "check" /\ confirms' \in {confirms, <<>>}
        /\ user' \in Accounts \cup {NoUser}
    BY <1>b, <1>2 DEF signOut, MenuToLogin, Launch, viewWillAppear
  <2>2. ChecksOK'
    BY <1>b, <2>1 DEF ChecksOK
  <2> QED
    BY <2>1, <2>2, AwayKeeps
<1>3. CASE Kill
  <2>1. ChecksOK'
    BY <1>b, <1>3, RetireAllKeeps DEF Kill
  <2> QED
    BY <1>b, <1>3, <2>1, AwayKeeps DEF Kill
<1>4. CASE \E a \in Accounts : signIn(a)
  BY <1>4, SignInKeeps
<1>5. CASE CheckButton
  BY <1>5, CheckButtonKeeps
<1>6. CASE confirmButon
  BY <1>6, ConfirmKeeps
<1>7. CASE cancelButton \/ BackToMenu \/ BackToMenuButton
  <2>1. (\E reInit : viewWillAppear(reInit)) /\ checks' = Retire(checks, FALSE)
        /\ UNCHANGED <<user, menu>>
    BY <1>7 DEF cancelButton, BackToMenu, BackToMenuButton
  <2> QED
    BY <2>1, LeaveKeeps
<1>8. ASSUME NEW i \in DOMAIN checks, AnswerRefused(i) PROVE CheckInv'
  <2>1. ChecksOK' /\ FrontShowsCart'
    BY <1>8, AnswerKeeps DEF AnswerRefused, defaults
  <2> QED
    BY <1>8, <2>1 DEF AnswerRefused, CheckInv
<1>9. ASSUME NEW i \in DOMAIN checks, AnswerAccepted(i) PROVE CheckInv'
  <2>1. ChecksOK' /\ FrontShowsCart'
    BY <1>9, AnswerKeeps DEF AnswerAccepted, ResetCart
  <2>2. confirms' \in Seq(Int)
    BY <1>a, <1>b, <1>9 DEF AnswerAccepted
  <2> QED
    BY <1>9, <2>1, <2>2 DEF AnswerAccepted, CheckInv
<1>10. CASE BackToCheck
  <2>1. confirms # <<>> /\ confirms' = SubSeq(confirms, 1, Len(confirms) - 1)
        /\ UNCHANGED <<names, user, screen, checks, menu>>
    BY <1>10 DEF BackToCheck, defaults
  <2>2. confirms' \in Seq(Int)
    BY <1>b, <2>1
  <2> QED
    BY <2>1, <2>2 DEF CheckInv, ChecksOK, FrontShowsCart, Front
<1>11. ASSUME NEW k \in DOMAIN confirms, updateView(k) PROVE CheckInv'
  <2>1. CASE confirms[k] > 1
    <3>1. confirms' = [confirms EXCEPT ![k] = @ - 1] /\ UNCHANGED <<names, user, screen, checks, menu>>
      BY <1>11, <2>1 DEF updateView
    <3>2. confirms' \in Seq(Int)
      BY <1>b, <1>11, <3>1
    <3> QED
      BY <3>1, <3>2 DEF CheckInv, ChecksOK, FrontShowsCart, Front
  <2>2. CASE ~(confirms[k] > 1)
    <3>1. viewWillAppear(init) /\ checks' = Retire(checks, FALSE) /\ UNCHANGED <<user, menu>>
      BY <1>11, <2>2 DEF updateView
    <3> QED
      BY <3>1, LeaveKeeps
  <2> QED
    BY <2>1, <2>2
<1>12. CASE UNCHANGED vars
  BY <1>12 DEF vars, defaults, CheckInv, ChecksOK, FrontShowsCart, Front
<1> QED
  BY <1>1, <1>2, <1>3, <1>4, <1>5, <1>6, <1>7, <1>8, <1>9, <1>10, <1>11, <1>12 DEF Next

(* Only an accepted answer lengthens the stack of confirmations.           *)
LEMMA OrderIsAnswer ==
    ASSUME CheckInv, Next, Len(confirms') > Len(confirms), screen = "check"
    PROVE  AnswerAccepted(Len(checks))
<1>a. confirms \in Seq(Int) /\ Len(confirms) \in Nat
  BY DEF CheckInv
<1>1. confirms' # confirms /\ confirms' # <<>>
  BY <1>a
<1>2. \A i \in DOMAIN checks : ~AnswerRefused(i)
  BY <1>1 DEF AnswerRefused
<1>3. /\ ~CheckButton /\ ~confirmButon /\ ~Kill /\ ~signOut /\ ~MenuToLogin /\ ~Launch
      /\ ~cancelButton /\ ~BackToMenu /\ ~BackToMenuButton /\ \A a \in Accounts : ~signIn(a)
  BY <1>1 DEF CheckButton, confirmButon, Kill, signOut, MenuToLogin, Launch, cancelButton,
       BackToMenu, BackToMenuButton, signIn, viewWillAppear
<1>4. \A p \in Products : ~plusBtnClick(p) /\ ~minusBtnClick(p) /\ ~cellForRowAt(p)
  BY DEF plusBtnClick, minusBtnClick, cellForRowAt
<1>5. ~BackToCheck
  <2> SUFFICES ASSUME BackToCheck PROVE FALSE
    OBVIOUS
  <2>1. confirms # <<>> /\ confirms' = SubSeq(confirms, 1, Len(confirms) - 1)
    BY DEF BackToCheck
  <2>2. Len(confirms') = Len(confirms) - 1
    BY <1>a, <2>1
  <2> QED
    BY <1>a, <2>2
<1>6. ASSUME NEW k \in DOMAIN confirms, updateView(k) PROVE FALSE
  <2>1. confirms' = [confirms EXCEPT ![k] = @ - 1]
    BY <1>1, <1>6 DEF updateView, viewWillAppear
  <2>2. confirms[k] - 1 \in Int
    BY <1>a
  <2>3. Len(confirms') = Len(confirms)
    BY <1>a, <2>1, <2>2
  <2> QED
    BY <1>a, <2>3
<1>7. PICK i \in DOMAIN checks : AnswerAccepted(i)
  BY <1>2, <1>3, <1>4, <1>5, <1>6 DEF Next
<1>8. i = Len(checks)
  BY <1>1, <1>7 DEF AnswerAccepted
<1> QED
  BY <1>7, <1>8

(* A confirmation that appears before the screen in front stores the cart.  *)
LEMMA OrderTakesCart ==
    ASSUME CheckInv, Next, NEW i \in DOMAIN checks, i = Len(checks), screen = "check",
           Len(confirms') > Len(confirms), names # NoItems
    PROVE  menu'[checks[i].user] = {[items |-> names, subtotal |-> checks[i].subtotal]}
<1>1. AnswerAccepted(i)
  BY OrderIsAnswer
<1>2. checks[i].user \in Accounts /\ checks[i].items = names
  BY DEF CheckInv, FrontShowsCart, Front
<1>3. menu' = [menu EXCEPT ![checks[i].user] =
                 {[items |-> checks[i].items, subtotal |-> checks[i].subtotal]}]
  BY <1>1 DEF AnswerAccepted
<1> QED
  BY <1>2, <1>3 DEF CheckInv

(* An order confirmed from the check-out screen in front holds every item  *)
(* of the cart that is reset with it, whatever screens, accounts, queries  *)
(* and late answers there are (CheckViewController.swift, resetItem).      *)
THEOREM OrdersComplete == Spec => VisibleOrderTakesCart
<1> DEFINE Taken == \A i \in DOMAIN checks :
             i = Len(checks) /\ screen = "check" /\ Len(confirms') > Len(confirms) /\ names # NoItems
               => menu'[checks[i].user] = {[items |-> names, subtotal |-> checks[i].subtotal]}
<1>1. Init => MenuInv /\ CheckInv
  BY MenuInvInit, CheckInvInit
<1>2. MenuInv /\ CheckInv /\ [Next]_vars => (MenuInv /\ CheckInv)'
  BY MenuInvStep, CheckInvStep
<1>3. MenuInv /\ CheckInv /\ [Next]_vars => [Taken]_vars
  BY OrderTakesCart
<1> QED
  BY <1>1, <1>2, <1>3, PTL DEF Spec, VisibleOrderTakesCart

=============================================================================
