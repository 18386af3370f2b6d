--------------------------- MODULE FoodHausOrder ---------------------------
(***************************************************************************)
(* Ordering in the FoodHaus app: the cells of the menu, the cart kept in   *)
(* UserDefaults, the check-out screens with their asynchronous profile     *)
(* query, the confirmation screens with their timers, signing in and out,  *)
(* and the death and relaunch of the app.  Handlers run on the main thread *)
(* and are atomic; what interleaves are the taps of the user, the answers  *)
(* of Firebase, the timers and the end of the process.                     *)
(*                                                                         *)
(* A list of product names is kept sorted by the app and is a function     *)
(* from products to how often they occur.  Amounts are Doubles: integer    *)
(* multiples of 1 / Unit dollar that carry Significand bits.               *)
(***************************************************************************)
EXTENDS Integers, Sequences, FiniteSetsExt

CONSTANTS
    Products,           \* the rows of the menu
    Categories,         \* the rows of the table on its left
    Category,           \* the section of each product
    Price,              \* the Double read from the price label of a cell
    Unit, Significand,  \* 1 dollar, and how many bits a Double carries
    Accounts, NoUser,   \* Firebase accounts, and Auth.currentUser = nil
    Countdown,          \* where the confirmation screen starts to count down
    MaxItems,           \* bound: items in the cart
    MaxChecks,          \* bound: check-out screens ever opened
    MaxRequests         \* bound: profile queries of one check-out screen

ASSUME ConstantsAssumption ==
    /\ Category \in [Products -> Categories]
    /\ Price \in [Products -> Nat]
    /\ NoUser \notin Accounts
    /\ Countdown \in Nat \ {0}

VARIABLES
    total, names, hasName, init,  \* UserDefaults: "total", "Name" and whether it is set, "init"
    user,                         \* Auth.currentUser
    screen,                       \* the controller in front, or how the process ended
    buyCount, cellItems,          \* the count (0: nil) and the items of each cell of the menu
    badge,                        \* the label with tag 200 of each category (0: none)
    checks,                       \* every CheckViewController made so far, the last in front
    confirms,                     \* the ConfirmViewControllers pushed on it: their counters
    menu,                         \* the database: users/<uid>/menu, empty or one order
    late                          \* history: the cart was last reset by an answer that found the menu in front

defaults == <<total, names, hasName, init>>
view == <<buyCount, cellItems, badge>>
vars == <<defaults, user, screen, view, checks, confirms, menu, late>>

NoItems == [p \in Products |-> 0]
Size(items) == MapThenSumSet(LAMBDA p : items[p], Products)

\* The sum of two Doubles: the nearest multiple of the unit in the last
\* place, and the even one of two that are equally near.
Abs(n) == IF n < 0 THEN -n ELSE n
Ulp(n) == LET big == 2 ^ Significand
              scales == {k \in 0..30 : (Abs(n) \div (2 ^ k)) < big}
          IN 2 ^ (CHOOSE k \in scales : \A j \in scales : k <= j)
RoundUp(q, r, u) == 2 * r > u \/ (2 * r = u /\ q % 2 = 1)
Round(n) ==
    LET u == Ulp(n)
        q == Abs(n) \div u
        m == u * (IF RoundUp(q, Abs(n) % u, u) THEN q + 1 ELSE q)
    IN IF n < 0 THEN -m ELSE m

\* String(format: "%.2f", amount) is "0.00"; below zero it is "-0.00" at best.
PrintsZero(amount) == amount >= 0 /\ 1000 * amount < 5 * Unit

TypeOK ==
    /\ total \in Int
    /\ names \in [Products -> Nat]
    /\ hasName \in BOOLEAN /\ init \in BOOLEAN /\ late \in BOOLEAN
    /\ user \in Accounts \cup {NoUser}
    /\ screen \in {"menu", "login", "check", "ended", "crashed"}
    /\ buyCount \in [Products -> Nat]
    /\ cellItems \in [Products -> [Products -> Nat]]
    /\ badge \in [Categories -> Nat]
    /\ checks \in Seq([items : [Products -> Nat], subtotal : Int, user : Accounts \cup {NoUser},
                       pending : Nat])
    /\ confirms \in Seq(1..Countdown)
    /\ menu \in [Accounts -> SUBSET [items : [Products -> Nat], subtotal : Int]]

Init ==
    /\ total = 0 /\ names = NoItems /\ hasName = FALSE /\ init = FALSE
    /\ user = NoUser
    /\ screen = "menu"
    /\ buyCount = NoItems
    /\ cellItems = [p \in Products |-> NoItems]
    /\ badge = [c \in Categories |-> 0]
    /\ checks = <<>> /\ confirms = <<>>
    /\ menu = [a \in Accounts |-> {}]
    /\ late = FALSE

-----------------------------------------------------------------------------
(* The menu. *)

\* A check-out screen that is neither in front nor waits for an answer can
\* do nothing more: its fields are forgotten.
Gone == [items |-> NoItems, subtotal |-> 0, user |-> NoUser, pending |-> 0]
Retire(screens, inFront) ==
    [i \in DOMAIN screens |->
        IF screens[i].pending > 0 \/ (inFront /\ i = Len(screens)) THEN screens[i] ELSE Gone]
RetireAll == [i \in DOMAIN checks |-> Gone]

\* MenuViewController.initData puts new tables over the old ones.
initData ==
    /\ buyCount' = NoItems
    /\ cellItems' = [p \in Products |-> NoItems]
    /\ badge' = [c \in Categories |-> 0]

\* viewWillAppear, with the value reInit of "init" it finds.
viewWillAppear(reInit) ==
    /\ screen' = "menu"
    /\ confirms' = <<>>
    /\ init' = FALSE
    /\ IF reInit THEN initData ELSE UNCHANGED view

\* A forced cast or unwrapping fails after the total has been written.
Crash ==
    /\ screen' = "crashed"
    /\ checks' = RetireAll
    /\ UNCHANGED <<names, hasName, init, user, view, confirms, menu, late>>

\* The end of a click: "Name" is written and the closure counts the badge.
SaveNames(p, items) ==
    /\ names' = items
    /\ hasName' = TRUE
    /\ cellItems' = [cellItems EXCEPT ![p] = items]
    /\ UNCHANGED <<init, user, screen, checks, confirms, menu, late>>

BadgeAfter(count, isAddProduct) ==
    IF count = 0 THEN 1 ELSE IF isAddProduct THEN count + 1 ELSE count - 1

AddItem(p, items) ==
    /\ Size(items) < MaxItems
    /\ SaveNames(p, [items EXCEPT ![p] = @ + 1])
    /\ buyCount' = [buyCount EXCEPT ![p] = @ + 1]
    /\ badge' = [badge EXCEPT ![Category[p]] = BadgeAfter(@, TRUE)]

\* The first click keeps the items of the cell when "Name" is not set; the
\* later ones force the cast of what "Name" holds.
plusBtnClick(p) ==
    /\ screen = "menu"
    /\ total' = Round(total + Price[p])
    /\ \/ buyCount[p] = 0 /\ AddItem(p, IF hasName THEN names ELSE cellItems[p])
       \/ buyCount[p] > 0 /\ hasName /\ AddItem(p, names)
       \/ buyCount[p] > 0 /\ ~hasName /\ Crash

\* The button lies hidden under the other one while the count is nil.
minusBtnClick(p) ==
    /\ screen = "menu"
    /\ buyCount[p] > 0
    /\ total' = Round(total - Price[p])
    /\ IF hasName /\ names[p] > 0
       THEN /\ SaveNames(p, [names EXCEPT ![p] = @ - 1])
            /\ buyCount' = [buyCount EXCEPT ![p] = @ - 1]
            /\ badge' = [badge EXCEPT ![Category[p]] = BadgeAfter(@, FALSE)]
       ELSE Crash

\* A row scrolled out and in again gets a new cell.
cellForRowAt(p) ==
    /\ screen = "menu"
    /\ buyCount' = [buyCount EXCEPT ![p] = 0]
    /\ cellItems' = [cellItems EXCEPT ![p] = NoItems]
    /\ UNCHANGED <<defaults, user, screen, badge, checks, confirms, menu, late>>

-----------------------------------------------------------------------------
(* Signing in and out. *)

\* The listeners of the check-out screens ignore that the user is nil.
signOut ==
    /\ screen = "menu" /\ user # NoUser
    /\ user' = NoUser
    /\ UNCHANGED <<defaults, screen, view, checks, confirms, menu, late>>

MenuToLogin ==
    /\ screen = "menu" /\ user = NoUser
    /\ screen' = "login"
    /\ UNCHANGED <<defaults, user, view, checks, confirms, menu, late>>

\* Every CheckViewController still listens and takes the new user.
signIn(a) ==
    /\ screen = "login"
    /\ user' = a
    /\ checks' = [i \in DOMAIN checks |-> IF checks[i] = Gone THEN Gone ELSE [checks[i] EXCEPT !.user = a]]
    /\ viewWillAppear(init)
    /\ UNCHANGED <<total, names, hasName, menu, late>>

-----------------------------------------------------------------------------
(* Checking out. *)

\* Bug: one check-out screen is kept and shows what it read first.
CheckButton_ReusesScreen ==
    /\ screen = "menu" /\ user # NoUser
    /\ Len(checks) < MaxChecks
    /\ screen' = "check"
    /\ checks' = Append(checks, [items |-> IF checks = <<>> THEN names ELSE checks[1].items,
                                 subtotal |-> total, user |-> user, pending |-> 0])
    /\ UNCHANGED <<defaults, user, view, confirms, menu, late>>

CheckButton ==
    /\ screen = "menu" /\ user # NoUser
    /\ Len(checks) < MaxChecks
    /\ screen' = "check"
    /\ checks' = Append(checks, [items |-> names, subtotal |-> total, user |-> user,
                                 pending |-> 0])
    /\ UNCHANGED <<defaults, user, view, confirms, menu, late>>

OnCheck == screen = "check" /\ confirms = <<>>

\* The query of the profile is sent and the screen stays as it is.
confirmButon ==
    /\ OnCheck
    /\ checks[Len(checks)].pending < MaxRequests
    /\ checks' = [checks EXCEPT ![Len(checks)].pending = @ + 1]
    /\ UNCHANGED <<defaults, user, screen, view, confirms, menu, late>>

\* resetPrice and resetItem.
ResetCart ==
    /\ total' = 0
    /\ names' = NoItems
    /\ hasName' = FALSE

Running == screen \in {"menu", "login", "check"}

\* The answer to a query of check-out screen i reports an error, an
\* incomplete profile, or finds that nothing is to be paid: an alert.
AnswerRefused(i) ==
    /\ Running /\ checks[i].pending > 0
    /\ checks' = Retire([checks EXCEPT ![i].pending = @ - 1], screen = "check")
    /\ UNCHANGED <<defaults, user, screen, view, confirms, menu, late>>

\* Bug: the menu is not told to reload its cells.
AnswerAccepted_NoInit(i) ==
    /\ Running /\ checks[i].pending > 0
    /\ ~PrintsZero(checks[i].subtotal)
    /\ checks' = Retire([checks EXCEPT ![i].pending = @ - 1], screen = "check")
    /\ menu' = [menu EXCEPT ![checks[i].user] =
                    {[items |-> checks[i].items, subtotal |-> checks[i].subtotal]}]
    /\ ResetCart
    /\ late' = (screen = "menu")
    /\ confirms' = IF screen = "check" /\ i = Len(checks) THEN Append(confirms, Countdown) ELSE confirms
    /\ UNCHANGED <<init, user, screen, view>>

\* The profile is complete: the order is stored, the cart reset, and the
\* confirmation pushed if the check-out screen is still on the stack.
AnswerAccepted(i) ==
    /\ Running /\ checks[i].pending > 0
    /\ ~PrintsZero(checks[i].subtotal)
    /\ checks' = Retire([checks EXCEPT ![i].pending = @ - 1], screen = "check")
    /\ menu' = [menu EXCEPT ![checks[i].user] =
                    {[items |-> checks[i].items, subtotal |-> checks[i].subtotal]}]
    /\ ResetCart
    /\ init' = TRUE
    /\ late' = (screen = "menu")
    /\ confirms' = IF screen = "check" /\ i = Len(checks) THEN Append(confirms, Countdown) ELSE confirms
    /\ UNCHANGED <<user, screen, view>>

\* Bug: the flag for the menu is not set.
cancelButton_NoInit ==
    /\ OnCheck
    /\ ResetCart
    /\ late' = FALSE
    /\ checks' = Retire(checks, FALSE)
    /\ viewWillAppear(FALSE)
    /\ UNCHANGED <<user, menu>>

cancelButton ==
    /\ OnCheck
    /\ ResetCart
    /\ late' = FALSE
    /\ checks' = Retire(checks, FALSE)
    /\ viewWillAppear(TRUE)
    /\ UNCHANGED <<user, menu>>

\* The back button of the check-out screen, and of a confirmation.
BackToMenu ==
    /\ OnCheck
    /\ viewWillAppear(init)
    /\ checks' = Retire(checks, FALSE)
    /\ UNCHANGED <<total, names, hasName, user, menu, late>>

BackToCheck ==
    /\ confirms # <<>> /\ screen = "check"
    /\ confirms' = SubSeq(confirms, 1, Len(confirms) - 1)
    /\ UNCHANGED <<defaults, user, screen, view, checks, menu, late>>

BackToMenuButton ==
    /\ confirms # <<>> /\ screen = "check"
    /\ viewWillAppear(init)
    /\ checks' = Retire(checks, FALSE)
    /\ UNCHANGED <<total, names, hasName, user, menu, late>>

\* Bug: the counter stops at the end and nothing pops.
updateView_NeverPops(k) ==
    /\ screen = "check"
    /\ confirms[k] > 1
    /\ confirms' = [confirms EXCEPT ![k] = @ - 1]
    /\ UNCHANGED <<init, screen, view, checks, total, names, hasName, user, menu, late>>

\* The timer of confirmation k; at zero it pops to the menu.
updateView(k) ==
    /\ screen = "check"
    /\ IF confirms[k] > 1
       THEN /\ confirms' = [confirms EXCEPT ![k] = @ - 1]
            /\ UNCHANGED <<init, screen, view, checks>>
       ELSE /\ viewWillAppear(init)
            /\ checks' = Retire(checks, FALSE)
    /\ UNCHANGED <<total, names, hasName, user, menu, late>>

-----------------------------------------------------------------------------
(* The process. *)

Kill ==
    /\ Running
    /\ screen' = "ended"
    /\ checks' = RetireAll
    /\ UNCHANGED <<defaults, user, view, confirms, menu, late>>

Launch ==
    /\ screen \in {"ended", "crashed"}
    /\ viewWillAppear(TRUE)
    /\ UNCHANGED <<total, names, hasName, user, checks, menu, late>>

Next ==
    \/ \E p \in Products : plusBtnClick(p) \/ minusBtnClick(p) \/ cellForRowAt(p)
    \/ signOut \/ MenuToLogin \/ \E a \in Accounts : signIn(a)
    \/ CheckButton \/ confirmButon \/ cancelButton
    \/ \E i \in DOMAIN checks : AnswerRefused(i) \/ AnswerAccepted(i)
    \/ BackToMenu \/ BackToCheck \/ BackToMenuButton
    \/ \E k \in DOMAIN confirms : updateView(k)
    \/ Kill \/ Launch

\* Only the timer of a confirmation is sure to run: the user may stop, and
\* the network may never answer.
Spec == Init /\ [][Next]_vars /\ WF_vars(\E k \in DOMAIN confirms : updateView(k))

\* What a run takes from MenuData and MenuPrice: a menu of one category
\* whose products cost 9.50 and 6.95, as 18-bit Doubles in units of 1 / 16384
\* dollar.
SingleCategory == [p \in Products |-> CHOOSE c \in Categories : TRUE]
TwoPrices == [p \in Products |-> IF p = CHOOSE q \in Products : TRUE THEN 155648 ELSE 113869]

-----------------------------------------------------------------------------
(* Properties *)

\* While the menu is in front and no late answer has emptied the cart behind
\* it, it has been reloaded and no cell counts more of its product than the
\* cart holds: neither the forced cast of "Name" nor index! can fail.
CellsWithinCart ==
    screen = "menu" /\ ~late =>
        ~init /\ \A p \in Products : buyCount[p] <= names[p]

\* The app dies in a handler of the menu only after such a late answer.
CrashesOnlyLate == [][screen' = "crashed" => late]_vars

\* An order confirmed from the check-out screen in front takes the whole
\* cart: no item that is in UserDefaults is lost with the reset.
VisibleOrderTakesCart ==
    [][\A i \in DOMAIN checks :
        i = Len(checks) /\ screen = "check" /\ Len(confirms') > Len(confirms) /\ names # NoItems
            => menu'[checks[i].user] = {[items |-> names, subtotal |-> checks[i].subtotal]}]_vars

\* A confirmation does not stay: its timer, a button or the end of the
\* process takes the user away from it.
ConfirmationEnds == confirms # <<>> /\ screen = "check" ~> ~(confirms # <<>> /\ screen = "check")

=============================================================================
