-------------------------- MODULE ExtractionProofs --------------------------
(***************************************************************************)
(* Theorems about Extraction, for any number of accounts, pages, calls and *)
(* attempts, and either adapter.                                           *)
(*                                                                         *)
(* What a result says of an account's history is decided page by page, so  *)
(* IInv follows the loop: as long as no answer about the account was odd,  *)
(* what the browser shows and what was read are in step (InStep), and the  *)
(* browser's history never runs ahead of the loop (Shown).  Whether the    *)
(* next account is looked for from the dashboard is decided by the entry   *)
(* before the last (OneBack), and that by all accounts since the last link *)
(* home (Tidy).                                                            *)
(***************************************************************************)
EXTENDS Extraction, FiniteSetTheorems, TLAPS

\* Where a complete reading of account k's history ends.
EndOf(k) == IF pages[k] < MaxPages THEN pages[k] ELSE MaxPages

\* The loop is within the accounts that were listed.
Counted ==
    /\ OneResultEach
    /\ phase \in InAccount => current <= listed
    /\ phase = "home" => current < listed
    /\ phase = "discover" => current = 1 /\ Len(results) = 0

\* What is in the browser's history, and the type of its entries.
Views == [of : 0..NumAccounts, page : Nat]
Been == {trail[i] : i \in 1..Len(trail)}

\* The browser never was at an account, or a page of it, that the loop was not at.
Passed(seen) == seen.of <= current /\ (seen.of # 0 => seen.page >= 1)

Shown ==
    /\ \A seen \in Been : Passed(seen)
    /\ phase \in {"discover", "navigate"} => \A seen \in Been : seen.of < current
    /\ phase \in {"page", "next"} => view.page <= page \/ view.of # current
    /\ phase \in {"page", "next", "balance"} => page >= 1

\* The pages that were read of the current account.
Ends == \E m \in 1..EndOf(current) :
            /\ read = 1..m
            /\ hasDom \/ worst = "exact" => m = EndOf(current)

InStep == worst # "odd" =>
    /\ phase \in {"page", "next"} => /\ page <= EndOf(current)
                                     /\ view = [of |-> current, page |-> page]
    /\ phase = "page" => read = 1..(page - 1)
    /\ phase = "next" => read = 1..page
    /\ phase = "balance" => Ends /\ view.of = current /\ view.page <= pages[current]

\* No account since the last link home strayed.
Tidy == \A k \in (homed + 1)..Len(results) : ~Strayed(k)

\* Going back leads to the dashboard.
OneBack == Len(trail) >= 2 /\ trail[Len(trail) - 1] = Dashboard

OnWay ==
    /\ homed < current
    /\ phase = "discover" \/ (phase = "navigate" /\ Tidy) => view = Dashboard
    /\ /\ phase \in {"page", "next", "balance"} /\ Tidy /\ worst # "odd"
       /\ inPlace \/ pages[current] <= 1
       => OneBack
    /\ phase = "home" /\ Tidy => OneBack

IInv == TypeOK /\ Counted /\ Shown /\ InStep /\ HistoryIsFaithful /\ OnWay

-----------------------------------------------------------------------------
(* Answers of the LLM                                                      *)

\* An answer as it was asked for is found; one with text around it may be
\* missed, where a function looks for no brackets.
LEMMA ExactIsFound ==
  ASSUME NEW goal \in {"rows", "link", "next", "balance"}, NEW reply \in Replies,
         Quality(reply) # "odd"
  PROVE  /\ reply.body = "asked" /\ Quality(reply) \in {"exact", "wrapped"}
         /\ Outcome(Client, goal, reply) # "partial"
         /\ Outcome(Client, goal, reply) = "default" => goal = "next" /\ Quality(reply) = "wrapped"
  <1>1. reply.body = "asked" /\ reply.form \in {"bare", "wrapped"}
    BY DEF Quality
  <1>2. Quality(reply) = IF reply.form = "bare" THEN "exact" ELSE "wrapped"
    BY <1>1 DEF Quality
  <1>3. ~ClientRaises(Client, reply)
    BY <1>1 DEF ClientRaises
  <1>4. Parsed(goal, reply) \in {"asked", "missed"}
        /\ (reply.form = "bare" => Parsed(goal, reply) = "asked")
        /\ (goal \in {"rows", "balance"} => Parsed(goal, reply) = "asked")
    <2>1. goal = "rows" => "asked" \in Between(Brackets[goal])
      BY DEF Between, Brackets
    <2>2. goal = "balance" => "asked" \in Between(Brackets[goal])
      BY DEF Between, Brackets
    <2>3. reply.form # "torn"
      BY <1>1
    <2> QED
      BY <1>1, <2>1, <2>2, <2>3 DEF Parsed
  <1>5. Outcome(Client, goal, reply) = Use[goal][Parsed(goal, reply)]
    BY <1>3, <1>4 DEF Outcome
  <1>6. /\ Use[goal]["asked"] = "found"
        /\ goal = "link" => Use[goal]["missed"] = "raises"
        /\ goal = "next" => Use[goal]["missed"] = "default"
    BY DEF Use
  <1> QED
    BY <1>1, <1>2, <1>4, <1>5, <1>6

\* What an answer adds to the quality of what was read.
LEMMA AnsweredFacts ==
  ASSUME TypeOK, NEW goal \in {"rows", "link", "next", "balance"}, NEW outcome,
         Answered(goal, outcome)
  PROVE  /\ worst' \in Qualities /\ calls' \in Nat /\ asked' \in Nat
         /\ worst' # "odd" => worst # "odd" /\ outcome # "partial"
         /\ worst' # "odd" /\ outcome = "default" => goal = "next" /\ worst' = "wrapped"
         /\ worst' = "exact" => worst = "exact"
  <1>1. PICK reply \in Answers(goal, outcome) : worst' = Worse(worst, Quality(reply))
    BY DEF Answered
  <1>2. reply \in Replies /\ Outcome(Client, goal, reply) = outcome
    BY DEF Answers
  <1>3. Quality(reply) \in Qualities
    BY DEF Quality, Qualities
  <1>4. /\ worst' \in Qualities
        /\ worst' # "odd" => worst # "odd" /\ Quality(reply) # "odd"
        /\ worst' # "odd" /\ Quality(reply) = "wrapped" => worst' = "wrapped"
        /\ worst' = "exact" => worst = "exact"
    BY <1>1, <1>3 DEF Worse, Qualities, TypeOK
  <1>5. calls' \in Nat /\ asked' \in Nat
    BY DEF Answered, Ask, TypeOK
  <1> QED
    BY <1>2, <1>4, <1>5, ExactIsFound

LEMMA FoundFacts ==
  ASSUME TypeOK, NEW goal \in {"rows", "link", "balance"}, Found(goal)
  PROVE  /\ worst' \in Qualities /\ calls' \in Nat /\ asked' \in Nat
         /\ worst' # "odd" => worst # "odd"
         /\ worst' = "exact" => worst = "exact"
  BY AnsweredFacts DEF Found, NoAsk, llmVars, TypeOK

-----------------------------------------------------------------------------
(* The beginning, and what leaves the accounts alone                       *)

LEMMA Phases ==
  /\ InAccount = {"navigate", "page", "next", "balance"} /\ Over = {"returned", "raised"}
  /\ Dashboard.of = 0 /\ Dashboard.page = 1 /\ Before.of = 0 /\ Before.page = 0
  /\ Dashboard \in Views /\ Before \in Views
  BY ExtractionConstants DEF InAccount, Over, Dashboard, Before, Views

\* The browser's history is well-formed, and ends with what is shown.
LEMMA TrailFacts ==
  ASSUME TypeOK
  PROVE  /\ trail \in Seq(Views) /\ Len(trail) \in Nat /\ Len(trail) >= 1
         /\ view \in Been /\ Been \subseteq Views
  <1>1. trail \in Seq(Views) /\ trail # <<>>
    BY DEF TypeOK, Views
  <1>2. Len(trail) \in Nat /\ Len(trail) >= 1 /\ \A i \in 1..Len(trail) : trail[i] \in Views
    BY <1>1
  <1> QED
    BY <1>1, <1>2 DEF Been, view

LEMMA ShownFacts ==
  ASSUME IInv
  PROVE  /\ \A seen \in Been : Passed(seen)
         /\ view \in Views /\ view.of \in Nat /\ view.page \in Nat
         /\ view.of <= current /\ (view.of # 0 => view.page >= 1)
         /\ phase \in {"discover", "navigate"} => view.of < current
  <1>1. view \in Been /\ view \in Views
    BY TrailFacts DEF IInv
  <1>2. /\ \A seen \in Been : Passed(seen)
        /\ phase \in {"discover", "navigate"} => \A seen \in Been : seen.of < current
    BY DEF IInv, Shown
  <1>3. Passed(view) /\ (phase \in {"discover", "navigate"} => view.of < current)
    BY <1>1, <1>2
  <1>4. view.of \in Nat /\ view.page \in Nat
    BY <1>1, ExtractionConstants DEF Views
  <1> QED
    BY <1>1, <1>2, <1>3, <1>4 DEF Passed

\* A link that is followed.
LEMMA FollowFacts ==
  ASSUME TypeOK, NEW to \in Views, Follow(to)
  PROVE  /\ trail' \in Seq(Views) /\ trail' # <<>>
         /\ view' = to /\ Been' \subseteq Been \cup {to}
         /\ view = Dashboard /\ to # Dashboard => OneBack'
  <1>1. CASE view = to
    BY <1>1, TrailFacts DEF Follow, view, Been
  <1>2. CASE view # to
    <2>1. trail' = Append(trail, to)
      BY <1>2 DEF Follow
    <2>2. /\ trail' \in Seq(Views) /\ Len(trail') = Len(trail) + 1
          /\ trail'[Len(trail) + 1] = to
          /\ \A i \in 1..Len(trail) : trail'[i] = trail[i]
      BY <2>1, TrailFacts
    <2> QED
      BY <2>2, TrailFacts DEF view, Been, OneBack
  <1> QED
    BY <1>1, <1>2

\* A page that is turned.
LEMMA TurnFacts ==
  ASSUME TypeOK, TurnPage
  PROVE  LET to == [view EXCEPT !.page = @ + 1]
         IN  /\ to \in Views /\ trail' \in Seq(Views) /\ trail' # <<>>
             /\ view' = to /\ Been' \subseteq Been \cup {to}
             /\ inPlace /\ OneBack => OneBack'
  <1> DEFINE to == [view EXCEPT !.page = @ + 1]
  <1>1. to \in Views
    BY TrailFacts DEF Views
  <1>2. trail' = IF inPlace THEN [trail EXCEPT ![Len(trail)] = to] ELSE Append(trail, to)
    BY DEF TurnPage
  <1> HIDE DEF to
  <1>3. CASE inPlace
    <2>1. /\ trail' \in Seq(Views) /\ Len(trail') = Len(trail)
          /\ trail'[Len(trail)] = to
          /\ \A i \in 1..Len(trail) : i # Len(trail) => trail'[i] = trail[i]
      BY <1>1, <1>2, <1>3, TrailFacts
    <2>2. view' = to /\ Been' \subseteq Been \cup {to}
      BY <2>1, TrailFacts DEF view, Been
    <2>3. OneBack => OneBack'
      BY <2>1, TrailFacts DEF OneBack
    <2> QED
      BY <1>1, <1>3, <2>1, <2>2, <2>3, TrailFacts DEF to
  <1>4. CASE ~inPlace
    <2>1. /\ trail' \in Seq(Views) /\ Len(trail') = Len(trail) + 1
          /\ trail'[Len(trail) + 1] = to
          /\ \A i \in 1..Len(trail) : trail'[i] = trail[i]
      BY <1>1, <1>2, <1>4, TrailFacts
    <2> QED
      BY <1>1, <1>4, <2>1, TrailFacts DEF view, Been, to
  <1> QED
    BY <1>3, <1>4

LEMMA BackFacts ==
  ASSUME TypeOK, GoBack
  PROVE  /\ trail' \in Seq(Views) /\ trail' # <<>> /\ Been' \subseteq Been
         /\ OneBack => view' = Dashboard
  <1>1. CASE Len(trail) > 1
    <2>1. /\ trail' \in Seq(Views) /\ Len(trail') = Len(trail) - 1
          /\ \A i \in 1..(Len(trail) - 1) : trail'[i] = trail[i]
      BY <1>1, TrailFacts DEF GoBack
    <2> QED
      BY <1>1, <2>1, TrailFacts DEF view, Been, OneBack
  <1>2. CASE ~(Len(trail) > 1)
    BY <1>2, TrailFacts DEF GoBack, Been, OneBack
  <1> QED
    BY <1>1, <1>2

LEMMA InitIInv == Init => IInv
  <1> SUFFICES ASSUME Init PROVE IInv
    OBVIOUS
  <1>1. TypeOK
    <2>1. pages \in [Accounts -> Nat \ {0}]
      BY ExtractionConstants DEF Init
    <2>2. calls \in Nat /\ asked \in Nat
      BY ExtractionConstants DEF Init
    <2>3. results \in Seq(AccountResults)
      BY DEF Init
    <2>4. attempt \in 1..MaxAttempts /\ current \in Accounts /\ page \in 0..MaxPages
          /\ listed \in 0..NumAccounts
      BY ExtractionConstants DEF Init, Accounts
    <2>5. trail \in Seq([of : 0..NumAccounts, page : Nat]) /\ trail # <<>>
          /\ homed \in 0..NumAccounts
      BY Phases, ExtractionConstants DEF Init, Views
    <2>6. hasDom \in BOOLEAN /\ inPlace \in BOOLEAN /\ hung \in BOOLEAN
      BY ExtractionConstants DEF Init
    <2>7. phase \in {"discover", "home"} /\ read \subseteq 1..MaxPages /\ worst \in Qualities
      BY DEF Init, Qualities
    <2> QED
      BY <2>1, <2>2, <2>3, <2>4, <2>5, <2>6, <2>7 DEF TypeOK
  <1>2. Counted /\ Shown /\ InStep
    <2>1. trail = <<Before, Dashboard>>
      BY DEF Init
    <2>2. Been = {Before, Dashboard}
      BY <2>1 DEF Been
    <2> QED
      BY <2>2, Phases, ExtractionConstants
      DEF Init, Counted, OneResultEach, Shown, Passed, InStep
  <1>3. HistoryIsFaithful /\ OnWay
    BY Phases DEF Init, HistoryIsFaithful, OnWay, view
  <1> QED
    BY <1>1, <1>2, <1>3 DEF IInv

\* What was found out about the accounts that are through stays true.
LEMMA SameResults ==
  ASSUME IInv, UNCHANGED <<site, results>>
  PROVE  HistoryIsFaithful'
  BY DEF IInv, HistoryIsFaithful, site

\* A session that is over, or begins anew.
LEMMA AnewKeeps ==
  ASSUME IInv, Anew, phase' \in {"raised", "discover"}, attempt' \in 1..MaxAttempts,
         pages' \in [Accounts -> Nat \ {0}], hung' \in BOOLEAN,
         UNCHANGED <<hasDom, inPlace>>, calls' \in Nat, asked' \in Nat
  PROVE  IInv'
  <1>1. /\ listed' = 0 /\ current' = 1 /\ page' = 0 /\ trail' = <<Before, Dashboard>>
        /\ read' = {} /\ worst' = "exact" /\ results' = <<>> /\ homed' = 0
    BY DEF Anew
  <1>2. trail' \in Seq([of : 0..NumAccounts, page : Nat]) /\ trail' # <<>>
    BY <1>1, Phases DEF Views
  <1>3. TypeOK'
    BY <1>1, <1>2, Phases, ExtractionConstants DEF IInv, TypeOK, Accounts, Qualities
  <1>4. Been' = {Before, Dashboard} /\ view' = Dashboard
    BY <1>1 DEF Been, view
  <1>5. Counted' /\ Shown' /\ InStep' /\ OnWay'
    BY <1>1, <1>4, Phases DEF Counted, OneResultEach, Shown, Passed, InStep, OnWay
  <1>6. HistoryIsFaithful'
    BY <1>1 DEF HistoryIsFaithful
  <1> QED
    BY <1>3, <1>5, <1>6 DEF IInv

LEMMA DiscoverKeeps == ASSUME IInv, Discover PROVE IInv'
  <1>1. /\ phase = "discover" /\ phase' \in {"raised", "navigate"}
        /\ phase' = "navigate" => listed' # 0
        /\ UNCHANGED <<site, attempt, hung, current, page, trail, read, worst, results, homed>>
    BY DEF Discover, Step
  <1>2. listed' \in 0..NumAccounts
    BY ExtractionConstants DEF Discover, Accounts
  <1>3. calls' \in Nat /\ asked' \in Nat
    <2>1. calls \in Nat /\ asked \in Nat
      BY DEF IInv, TypeOK
    <2>2. NoAsk \/ Ask
      BY DEF Discover
    <2> QED
      BY <2>1, <2>2 DEF NoAsk, Ask, llmVars
  <1>4. TypeOK'
    BY <1>1, <1>2, <1>3, Phases DEF IInv, TypeOK, site
  <1>5. Counted'
    BY <1>1, <1>2, Phases DEF IInv, Counted, OneResultEach
  <1>6. Shown' /\ InStep' /\ OnWay'
    BY <1>1, Phases DEF IInv, Shown, Passed, InStep, OnWay, Counted, Been, view
  <1> QED
    BY <1>1, <1>4, <1>5, <1>6, SameResults DEF IInv

LEMMA RaiseKeeps ==
  ASSUME IInv, Raise, calls' \in Nat, asked' \in Nat
  PROVE  IInv'
  BY AnewKeeps DEF Raise, site, IInv, TypeOK

LEMMA RetryKeeps == ASSUME IInv, Retry PROVE IInv'
  <1>1. /\ phase' = "discover" /\ Anew /\ calls' = 0 /\ attempt' \in 1..MaxAttempts
        /\ UNCHANGED <<hasDom, inPlace, hung, asked>>
    BY ExtractionConstants DEF Retry, IInv, TypeOK
  <1>2. pages' \in [Accounts -> Nat \ {0}]
    BY ExtractionConstants DEF Retry
  <1> QED
    BY <1>1, <1>2, AnewKeeps DEF IInv, TypeOK

LEMMA HangKeeps == ASSUME IInv, Hang PROVE IInv'
  <1>1. hung' \in BOOLEAN /\ UNCHANGED <<site, attempt, session, llmVars>>
    BY DEF Hang
  <1>2. TypeOK'
    BY <1>1 DEF IInv, TypeOK, site, session, llmVars
  <1>3. Counted' /\ Shown' /\ InStep'
    BY <1>1 DEF IInv, Counted, OneResultEach, Shown, Passed, InStep, Ends, EndOf, Been,
                view, site, session
  <1>4. OnWay'
    BY <1>1 DEF IInv, OnWay, Tidy, Strayed, OneBack, view, site, session
  <1> QED
    BY <1>1, <1>2, <1>3, <1>4, SameResults DEF IInv, session

-----------------------------------------------------------------------------
(* Within an account                                                       *)

\* The accounts that are through stay tidy or not.
LEMMA SameTidy ==
  ASSUME UNCHANGED <<site, results, homed>>
  PROVE  Tidy' <=> Tidy
  BY DEF Tidy, Strayed, site

LEMMA NavigateKeeps == ASSUME IInv, NavigateToAccount PROVE IInv'
  <1> DEFINE first == [of |-> current, page |-> 1]
  <1>1. /\ phase = "navigate" /\ phase' = "page" /\ page' = 1 /\ read' = {}
        /\ UNCHANGED <<site, attempt, hung, listed, current, results, homed>>
    BY DEF NavigateToAccount, Step, Enter
  <1>2. /\ worst' \in Qualities /\ calls' \in Nat /\ asked' \in Nat
        /\ \/ Follow(first)
           \/ trail' = trail /\ worst' = "odd"
    BY AnsweredFacts, FoundFacts DEF IInv, NavigateToAccount
  <1>3. /\ current \in Nat /\ current >= 1 /\ pages[current] \in Nat \ {0}
        /\ MaxPages \in Nat \ {0} /\ first \in Views
    BY ExtractionConstants DEF IInv, TypeOK, Accounts, Views
  <1>4. /\ trail' \in Seq(Views) /\ trail' # <<>> /\ Been' \subseteq Been \cup {first}
        /\ view' = first \/ (worst' = "odd" /\ view' = view)
        /\ worst' # "odd" /\ view = Dashboard => OneBack'
    <2>1. CASE Follow(first)
      <3>1. first # Dashboard
        BY <1>3, Phases
      <3> QED
        BY <1>3, <2>1, <3>1, FollowFacts DEF IInv
    <2>2. CASE trail' = trail /\ worst' = "odd"
      BY <2>2, TrailFacts DEF IInv, Been, view
    <2> QED
      BY <1>2, <2>1, <2>2
  <1>5. TypeOK'
    BY <1>1, <1>2, <1>3, <1>4 DEF IInv, TypeOK, site, InAccount, Accounts, Views
  <1>6. Counted'
    BY <1>1, <1>3, Phases DEF IInv, Counted, OneResultEach
  <1>7. Shown'
    <2>1. view.of # current
      BY <1>1, <1>3, ShownFacts
    <2>2. Passed(first)
      BY <1>3 DEF Passed
    <2>3. \A seen \in Been' : Passed(seen)'
      BY <1>1, <1>4, <2>2, ShownFacts DEF Passed
    <2> QED
      BY <1>1, <1>3, <1>4, <2>1, <2>3 DEF Shown
  <1>8. InStep'
    BY <1>1, <1>3, <1>4 DEF InStep, EndOf, site
  <1>9. OnWay'
    BY <1>1, <1>4, SameTidy DEF IInv, OnWay, site
  <1> QED
    BY <1>1, <1>5, <1>6, <1>7, <1>8, <1>9, SameResults DEF IInv

LEMMA ReadKeeps == ASSUME IInv, ReadPage PROVE IInv'
  <1>1. /\ phase = "page" /\ phase' = "next"
        /\ UNCHANGED <<site, attempt, hung, listed, current, page, trail, results, homed>>
        /\ view' = view /\ Been' = Been
    BY DEF ReadPage, Step, view, Been
  <1>2. /\ worst' \in Qualities /\ calls' \in Nat /\ asked' \in Nat
        /\ worst' # "odd" => /\ worst # "odd"
                             /\ read' = IF view.of = current THEN read \cup {view.page} ELSE read
        /\ \/ read' = read
           \/ view.of = current /\ read' = read \cup {view.page}
    BY AnsweredFacts, FoundFacts DEF IInv, ReadPage
  <1>3. /\ current \in Nat /\ current >= 1 /\ page \in Nat /\ page <= MaxPages
        /\ MaxPages \in Nat /\ view.page \in Nat /\ view \in Been
    BY TrailFacts, ExtractionConstants DEF IInv, TypeOK, Accounts, Views
  <1>4. read' \subseteq 1..MaxPages
    <2>1. view.of = current => view.page \in 1..MaxPages
      <3>1. view.of # 0 => view.page >= 1
        BY ShownFacts
      <3> QED
        BY <1>1, <1>3, <3>1 DEF IInv, Shown
    <2>2. read \subseteq 1..MaxPages
      BY DEF IInv, TypeOK
    <2> QED
      BY <1>2, <2>1, <2>2
  <1>5. TypeOK'
    BY <1>1, <1>2, <1>4 DEF IInv, TypeOK, site, InAccount
  <1>6. Counted' /\ Shown'
    BY <1>1, Phases DEF IInv, Counted, OneResultEach, Shown, Passed
  <1>8. OnWay'
    BY <1>1, <1>2, SameTidy DEF IInv, OnWay, OneBack, site
  <1>7. InStep'
    <2> SUFFICES ASSUME worst' # "odd"
                 PROVE  /\ page <= EndOf(current)' /\ view = [of |-> current, page |-> page]
                        /\ read' = 1..page
      BY <1>1 DEF InStep
    <2>1. page <= EndOf(current) /\ view = [of |-> current, page |-> page] /\ read = 1..(page - 1)
      BY <1>1, <1>2 DEF IInv, InStep
    <2>2. read' = read \cup {page}
      BY <1>2, <2>1
    <2>3. read' = 1..page
      BY <1>1, <1>3, <2>1, <2>2 DEF IInv, Shown
    <2> QED
      BY <1>1, <2>1, <2>3 DEF EndOf, site
  <1> QED
    BY <1>1, <1>5, <1>6, <1>7, <1>8, SameResults DEF IInv

LEMMA NextPageKeeps == ASSUME IInv, NextPage PROVE IInv'
  <1>1. /\ phase = "next" /\ UNCHANGED <<site, attempt, hung, listed, current, read, results, homed>>
    BY DEF NextPage, Step
  <1>2. /\ worst' \in Qualities /\ calls' \in Nat /\ asked' \in Nat
        /\ worst' # "odd" => worst # "odd"
        /\ worst' = "exact" => worst = "exact"
    BY AnsweredFacts DEF IInv, NextPage, TypeOK, NoAsk, llmVars
  <1>3. \/ /\ IF MorePages THEN TurnPage ELSE trail' = trail
           /\ IF MorePages /\ page < MaxPages
                THEN phase' = "page" /\ page' = page + 1
                ELSE phase' = "balance" /\ page' = page
        \/ /\ phase' = "balance" /\ page' = page /\ trail' = trail
           /\ ~hasDom /\ worst' # "exact"
    <2>1. ASSUME ~hasDom, Answered("next", "default") PROVE worst' # "exact"
      BY <2>1, AnsweredFacts DEF IInv
    <2> QED
      BY <2>1 DEF NextPage
  <1>4. /\ current \in Nat /\ current >= 1 /\ page \in Nat /\ page <= MaxPages
        /\ MaxPages \in Nat \ {0} /\ pages[current] \in Nat \ {0}
        /\ view \in Been /\ view \in Views /\ view.of \in Nat /\ view.page \in Nat
    BY TrailFacts, ExtractionConstants DEF IInv, TypeOK, Accounts, Views
  <1>5. /\ trail' \in Seq(Views) /\ trail' # <<>> /\ Been' \subseteq Been \cup {view'}
        /\ view'.of = view.of /\ view'.page \in {view.page, view.page + 1}
        /\ view'.page = view.page + 1 => view.page < pages[view.of]
        /\ view' = view \/ (MorePages /\ view' = [view EXCEPT !.page = @ + 1])
        /\ MorePages /\ phase' = "page" => view' = [view EXCEPT !.page = @ + 1]
        /\ inPlace \/ ~MorePages => (OneBack => OneBack')
    <2>1. CASE MorePages /\ TurnPage
      BY <1>4, <2>1, TurnFacts DEF IInv, MorePages, Views
    <2>2. CASE trail' = trail /\ ~(MorePages /\ phase' = "page")
      <3>1. view' = view /\ Been' = Been /\ (OneBack' <=> OneBack)
        BY <2>2 DEF view, Been, OneBack
      <3> QED
        BY <1>4, <2>2, <3>1, TrailFacts DEF IInv
    <2> QED
      BY <1>3, <2>1, <2>2
  <1>6. TypeOK'
    <2>1. phase' \in {"page", "balance"} /\ page' \in 0..MaxPages
      BY <1>3, <1>4
    <2> QED
      BY <1>1, <1>2, <1>5, <2>1, Phases DEF IInv, TypeOK, site, Views
  <1>7. Counted' /\ OnWay'
    <2>1. Counted'
      BY <1>1, <1>3, Phases DEF IInv, Counted, OneResultEach
    <2>2. OnWay'
      <3> SUFFICES ASSUME Tidy, worst' # "odd", inPlace \/ pages[current] <= 1 PROVE OneBack'
        BY <1>1, <1>3, SameTidy DEF IInv, OnWay, site
      <3>1. OneBack
        BY <1>1, <1>2 DEF IInv, OnWay
      <3>2. inPlace \/ ~MorePages
        <4>1. page >= 1 /\ view = [of |-> current, page |-> page]
          BY <1>1, <1>2 DEF IInv, InStep, Shown
        <4> QED
          BY <1>4, <4>1 DEF MorePages
      <3> QED
        BY <1>5, <3>1, <3>2
    <2> QED
      BY <2>1, <2>2
  <1>8. Shown'
    <2>1. view.of <= current /\ (view.of # 0 => view.page >= 1)
      BY ShownFacts
    <2>2. \A seen \in Been' : Passed(seen)'
      <3>1. view'.of <= current /\ (view'.of # 0 => view'.page >= 1)
        BY <1>4, <1>5, <2>1
      <3> QED
        BY <1>1, <1>5, <3>1, ShownFacts DEF Passed
    <2>3. phase' \in {"page", "balance"}
      BY <1>3
    <2>4. phase' = "page" => page' = page + 1
      BY <1>3
    <2>5. phase' = "page" => view'.page <= page' \/ view'.of # current
      BY <1>1, <1>4, <1>5, <2>4 DEF IInv, Shown
    <2>6. page' >= 1
      BY <1>1, <1>3, <1>4 DEF IInv, Shown
    <2> QED
      BY <1>1, <1>5, <2>2, <2>3, <2>5, <2>6 DEF IInv, Shown
  <1>9. InStep'
    <2> SUFFICES ASSUME worst' # "odd" PROVE InStep'
      BY DEF InStep
    <2>1. page <= EndOf(current) /\ view = [of |-> current, page |-> page] /\ read = 1..page
      BY <1>1, <1>2 DEF IInv, InStep
    <2>2. EndOf(current)' = EndOf(current) /\ EndOf(current) \in Nat /\ EndOf(current) <= pages[current]
      BY <1>1, <1>4 DEF EndOf, site
    <2>3. MorePages <=> page < pages[current]
      BY <2>1, <1>4 DEF MorePages
    <2>4. CASE phase' = "page"
      <3>1. MorePages /\ page < MaxPages /\ page' = page + 1 /\ view' = [view EXCEPT !.page = @ + 1]
        BY <1>3, <1>5, <2>4
      <3>2. view' = [of |-> current, page |-> page + 1] /\ page + 1 <= EndOf(current)
        BY <3>1, <2>1, <2>3, <1>4 DEF EndOf
      <3> QED
        BY <3>1, <3>2, <2>1, <2>2, <2>4, <1>1, <1>4 DEF InStep
    <2>5. CASE phase' = "balance"
      <3>1. view'.of = current /\ view'.page <= pages[current]
        BY <1>4, <1>5, <2>1, <2>2
      <3>2. page \in 1..EndOf(current)
        BY <1>1, <1>4, <2>1, <2>2 DEF IInv, Shown
      <3>3. hasDom \/ worst' = "exact" => page = EndOf(current)
        BY <1>3, <1>4, <2>1, <2>3, <2>5 DEF EndOf
      <3>4. Ends'
        BY <1>1, <2>1, <2>2, <3>2, <3>3 DEF Ends, site
      <3> QED
        BY <1>1, <2>5, <3>1, <3>4 DEF InStep, site
    <2> QED
      BY <1>3, <2>4, <2>5
  <1> QED
    BY <1>1, <1>6, <1>7, <1>8, <1>9, SameResults DEF IInv

\* An account that is finished, well or not.
LEMMA DoneKeeps ==
  ASSUME IInv, phase \in InAccount,
         NEW balance \in {"read", "default", "none"}, NEW error \in BOOLEAN,
         AccountDone(balance, error),
         UNCHANGED <<site, attempt>>, hung' \in BOOLEAN,
         worst' \in Qualities, calls' \in Nat, asked' \in Nat,
         trail' \in Seq(Views), trail' # <<>>,
         \A seen \in Been' : Passed(seen),
         balance # "none" /\ worst' # "odd" =>
            /\ balance = "read" /\ phase = "balance" /\ worst # "odd" /\ trail' = trail
            /\ worst' = "exact" => worst = "exact"
  PROVE  IInv'
  <1> DEFINE new == [ok |-> ~error, balance |-> balance, worst |-> worst',
                     read |-> IF balance = "none" THEN {} ELSE read]
             n == Len(results)
  <1>1. /\ results' = Append(results, new)
        /\ phase' = IF current < listed THEN "home" ELSE "returned"
        /\ UNCHANGED <<listed, current, page, read, homed>>
    BY DEF AccountDone
  <1>2. new \in AccountResults
    BY DEF AccountResults, IInv, TypeOK
  <1>3. /\ new.worst = worst' /\ new.balance = balance
        /\ balance = "none" => new.read = {}
        /\ balance # "none" => new.read = read
    OBVIOUS
  <1>4. results \in Seq(AccountResults) /\ n = current - 1 /\ current <= listed
    BY DEF IInv, TypeOK, Counted, OneResultEach
  <1>5. /\ current \in Nat /\ current >= 1 /\ listed \in Nat /\ MaxPages \in Nat \ {0}
        /\ pages[current] \in Nat \ {0}
    BY ExtractionConstants DEF IInv, TypeOK, Accounts
  <1> HIDE DEF new
  <1>6. /\ results' \in Seq(AccountResults) /\ Len(results') = current
        /\ results'[current] = new
        /\ \A k \in 1..(current - 1) : results'[k] = results[k]
    BY <1>1, <1>2, <1>4, <1>5
  <1>7. TypeOK'
    BY <1>1, <1>6, Phases DEF IInv, TypeOK, site, Views
  <1>8. Counted' /\ Shown' /\ InStep'
    BY <1>1, <1>4, <1>5, <1>6, Phases DEF Counted, OneResultEach, Shown, Passed, InStep
  <1>9. balance # "none" /\ worst' # "odd" =>
            Ends /\ view.of = current /\ view.page <= pages[current]
    BY DEF IInv, InStep
  <1>10. HistoryIsFaithful'
    <2> SUFFICES ASSUME NEW k \in 1..current, results'[k].ok, results'[k].worst # "odd"
                 PROVE  LET last == IF pages[k] < MaxPages THEN pages[k] ELSE MaxPages
                        IN  IF results'[k].balance = "none" THEN results'[k].read = {}
                            ELSE /\ results'[k].balance = "read"
                                 /\ \E m \in 1..last :
                                       /\ results'[k].read = 1..m
                                       /\ hasDom \/ results'[k].worst = "exact" => m = last
      BY <1>6 DEF HistoryIsFaithful, site
    <2>1. CASE k = current
      <3>1. new.worst # "odd"
        BY <1>6, <2>1
      <3>2. balance # "none" => /\ Ends /\ balance = "read" /\ new.read = read
                                /\ worst' = "exact" => worst = "exact"
        BY <1>3, <1>9, <3>1
      <3> QED
        BY <1>3, <1>6, <2>1, <3>2 DEF Ends, EndOf
    <2>2. CASE k \in 1..(current - 1)
      BY <1>4, <1>6, <2>2 DEF IInv, HistoryIsFaithful
    <2> QED
      BY <1>5, <2>1, <2>2
  <1>11. OnWay'
    <2>0. /\ inPlace' = inPlace /\ pages' = pages /\ current' = current /\ homed' = homed
          /\ homed \in Nat /\ homed < current
      BY <1>1 DEF site, IInv, OnWay, TypeOK
    <2> SUFFICES ASSUME phase' = "home", Tidy' PROVE OneBack'
      BY <1>1, <2>0 DEF OnWay
    <2>1. \A k \in (homed + 1)..current : ~Strayed(k)'
      BY <1>6, <2>0 DEF Tidy
    <2>2. Tidy
      <3> SUFFICES ASSUME NEW k \in (homed + 1)..(current - 1) PROVE ~Strayed(k)
        BY <1>4 DEF Tidy
      <3>1. ~Strayed(k)'
        BY <1>5, <2>0, <2>1
      <3> QED
        BY <1>6, <2>0, <3>1 DEF Strayed
    <2>3. /\ results'[current].balance # "none" /\ results'[current].worst # "odd"
          /\ inPlace \/ pages[current] <= 1
      <3>1. current \in (homed + 1)..current
        BY <1>5, <2>0
      <3>2. ~ \/ results'[current].balance = "none" \/ results'[current].worst = "odd"
              \/ ~inPlace /\ pages[current] > 1
        BY <2>0, <2>1, <3>1 DEF Strayed
      <3> QED
        BY <1>5, <2>0, <3>2 DEF Strayed
    <2>4. balance # "none" /\ worst' # "odd"
      BY <1>3, <1>6, <2>3
    <2>5. OneBack
      BY <2>2, <2>3, <2>4 DEF IInv, OnWay
    <2> QED
      BY <2>4, <2>5 DEF OneBack
  <1> QED
    BY <1>7, <1>8, <1>10, <1>11 DEF IInv

LEMMA BalanceKeeps == ASSUME IInv, GetBalance PROVE IInv'
  <1>1. /\ phase = "balance" /\ phase \in InAccount /\ UNCHANGED <<site, attempt, hung, trail>>
    BY Phases DEF GetBalance, Step
  <1>2. PICK balance \in {"read", "default"} :
            /\ AccountDone(balance, FALSE)
            /\ worst' \in Qualities /\ calls' \in Nat /\ asked' \in Nat
            /\ worst' # "odd" => worst # "odd" /\ balance = "read"
            /\ worst' = "exact" => worst = "exact"
    <2>1. CASE Found("balance") /\ AccountDone("read", FALSE)
      BY <2>1, FoundFacts DEF IInv
    <2>2. CASE Answered("balance", "default") /\ AccountDone("default", FALSE)
      BY <2>2, AnsweredFacts DEF IInv
    <2> QED
      BY <2>1, <2>2 DEF GetBalance
  <1>3. /\ trail' \in Seq(Views) /\ trail' # <<>> /\ hung' \in BOOLEAN /\ Been' = Been
        /\ \A seen \in Been : Passed(seen)
    <2>1. hung' \in BOOLEAN /\ trail # <<>>
      BY <1>1 DEF IInv, TypeOK
    <2> QED
      BY <1>1, <2>1, TrailFacts, ShownFacts DEF IInv, Been
  <1> QED
    BY <1>1, <1>2, <1>3, DoneKeeps

\* Wherever a click that may have come through has left the browser.
LEMMA LeftFacts ==
  ASSUME IInv, LeftSomewhere, current' = current
  PROVE  /\ trail' \in Seq(Views) /\ trail' # <<>>
         /\ \A seen \in Been' : Passed(seen)
  <1> DEFINE first == [of |-> current, page |-> 1]
  <1>1. current \in 1..NumAccounts /\ first \in Views /\ Passed(first)
    BY ExtractionConstants DEF IInv, TypeOK, Accounts, Views, Passed
  <1>2. CASE trail' = trail
    BY <1>2, TrailFacts, ShownFacts DEF IInv, TypeOK, Been
  <1>3. CASE Follow(first)
    <2>1. trail' \in Seq(Views) /\ trail' # <<>> /\ Been' \subseteq Been \cup {first}
      BY <1>1, <1>3, FollowFacts DEF IInv
    <2> QED
      BY <1>1, <2>1, ShownFacts
  <1>4. CASE TurnPage
    <2> DEFINE to == [view EXCEPT !.page = @ + 1]
    <2>1. trail' \in Seq(Views) /\ trail' # <<>> /\ Been' \subseteq Been \cup {to}
      BY <1>4, TurnFacts DEF IInv
    <2>2. Passed(to)
      <3>1. /\ view \in [of : 0..NumAccounts, page : Nat] /\ view.of <= current
            /\ view.of # 0 => view.page >= 1
        BY ShownFacts DEF Views
      <3> QED
        BY <3>1 DEF Passed
    <2> QED
      BY <2>1, <2>2, ShownFacts
  <1> QED
    BY <1>2, <1>3, <1>4 DEF LeftSomewhere

LEMMA FailsKeeps == ASSUME IInv, AccountFails PROVE IInv'
  <1>1. /\ phase \in InAccount /\ LeftSomewhere /\ UNCHANGED <<site, attempt, hung>>
        /\ \E text \in BOOLEAN : AccountDone("none", text)
    BY DEF AccountFails
  <1>2. worst' \in Qualities /\ calls' \in Nat /\ asked' \in Nat
    <2>1. ASSUME NoAsk, UNCHANGED worst
          PROVE  worst' \in Qualities /\ calls' \in Nat /\ asked' \in Nat
      BY <2>1 DEF NoAsk, llmVars, IInv, TypeOK
    <2>2. ASSUME OverBudget, UNCHANGED worst
          PROVE  worst' \in Qualities /\ calls' \in Nat /\ asked' \in Nat
      BY <2>2 DEF OverBudget, IInv, TypeOK
    <2>3. GoalOf[phase] \in {"rows", "link", "next", "balance"}
      BY <1>1, Phases DEF GoalOf
    <2>4. ASSUME NEW goal \in {"rows", "link", "next", "balance"}, NEW outcome,
                 Answered(goal, outcome)
          PROVE  worst' \in Qualities /\ calls' \in Nat /\ asked' \in Nat
      BY <2>4, AnsweredFacts DEF IInv
    <2> QED
      BY <2>1, <2>2, <2>3, <2>4 DEF AccountFails
  <1>3. hung' \in BOOLEAN /\ current' = current
    BY <1>1 DEF IInv, TypeOK, AccountDone
  <1> QED
    BY <1>1, <1>2, <1>3, LeftFacts, DoneKeeps

LEMMA TimeoutKeeps == ASSUME IInv, AccountTimeout PROVE IInv'
  <1>1. /\ phase \in InAccount /\ LeftSomewhere /\ AccountDone("none", TRUE)
        /\ UNCHANGED <<site, attempt>> /\ hung' \in BOOLEAN /\ current' = current
    BY DEF AccountTimeout, AccountDone
  <1>2. worst' \in Qualities /\ calls' \in Nat /\ asked' \in Nat
    BY DEF AccountTimeout, NoAsk, llmVars, IInv, TypeOK
  <1> QED
    BY <1>1, <1>2, LeftFacts, DoneKeeps

LEMMA HomeKeeps == ASSUME IInv, NavigateToDashboard PROVE IInv'
  <1>1. /\ phase = "home" /\ phase' = "navigate" /\ current' = current + 1 /\ worst' = "exact"
        /\ UNCHANGED <<site, attempt, hung, listed, page, read, results, calls, asked>>
        /\ ByLink \/ (GoBack /\ UNCHANGED homed)
    BY DEF NavigateToDashboard, Step, GoOn, NoAsk, llmVars
  <1>2. /\ current \in 1..NumAccounts /\ listed \in 0..NumAccounts /\ current < listed
        /\ Len(results) = current /\ homed \in 0..NumAccounts /\ homed < current
    BY <1>1 DEF IInv, TypeOK, Counted, OneResultEach, OnWay, Accounts
  <1>3. /\ trail' \in Seq(Views) /\ trail' # <<>> /\ Been' \subseteq Been \cup {Dashboard}
        /\ homed' \in 0..NumAccounts /\ homed' < current + 1
        /\ Tidy' => view' = Dashboard
    <2>1. CASE ByLink
      <3>1. Follow(Dashboard) /\ homed' = current
        BY <2>1 DEF ByLink
      <3> QED
        BY <1>2, <3>1, FollowFacts, Phases DEF IInv
    <2>2. CASE GoBack /\ UNCHANGED homed
      <3>1. Tidy' => OneBack
        BY <1>1, <2>2, SameTidy DEF IInv, OnWay
      <3> QED
        BY <1>2, <2>2, <3>1, BackFacts DEF IInv
    <2> QED
      BY <1>1, <2>1, <2>2
  <1>4. TypeOK'
    <2>1. hasDom' \in BOOLEAN /\ inPlace' \in BOOLEAN /\ pages' \in [Accounts -> Nat \ {0}]
      BY <1>1 DEF IInv, TypeOK, site
    <2>2. /\ phase' \in {"discover", "home"} \cup InAccount \cup Over
          /\ current' \in Accounts /\ worst' \in Qualities
      BY <1>1, <1>2, Phases, ExtractionConstants DEF Accounts, Qualities
    <2> QED
      BY <1>1, <1>3, <2>1, <2>2 DEF IInv, TypeOK, Views
  <1>5. Counted' /\ InStep' /\ OnWay'
    BY <1>1, <1>2, <1>3, Phases DEF IInv, Counted, OneResultEach, InStep, OnWay
  <1>6. Shown'
    <2>1. ASSUME NEW seen \in Been'
          PROVE  seen.of \in Nat /\ seen.of < current + 1 /\ (seen.of # 0 => seen.page >= 1)
      <3>1. CASE seen = Dashboard
        BY <1>2, <3>1, Phases
      <3>2. CASE seen \in Been
        <4>1. Passed(seen) /\ seen \in Views
          BY <3>2, ShownFacts, TrailFacts DEF IInv
        <4>2. seen.of \in Nat
          BY <4>1, ExtractionConstants DEF Views
        <4> QED
          BY <1>2, <4>1, <4>2 DEF Passed
      <3> QED
        BY <1>3, <2>1, <3>1, <3>2
    <2>2. \A seen \in Been' : seen.of < current' /\ Passed(seen)'
      BY <1>1, <1>2, <2>1 DEF Passed
    <2> QED
      BY <1>1, <2>2 DEF Shown
  <1> QED
    BY <1>1, <1>4, <1>5, <1>6, SameResults DEF IInv

-----------------------------------------------------------------------------
(* Every step                                                              *)

LEMMA StepIInv == IInv /\ [Next]_vars => IInv'
  <1> SUFFICES ASSUME IInv, [Next]_vars PROVE IInv'
    OBVIOUS
  <1>1. CASE SessionFails
    <2>1. Raise
      BY <1>1 DEF SessionFails
    <2>2. calls' \in Nat /\ asked' \in Nat
      <3>1. NoAsk \/ OverBudget \/ Ask
        BY <1>1 DEF SessionFails
      <3>2. calls \in Nat /\ asked \in Nat
        BY DEF IInv, TypeOK
      <3> QED
        BY <3>1, <3>2 DEF NoAsk, OverBudget, Ask, llmVars
    <2> QED
      BY <2>1, <2>2, RaiseKeeps
  <1>2. CASE WorkerDies
    BY <1>2, RaiseKeeps DEF WorkerDies, NoAsk, llmVars, IInv, TypeOK
  <1>3. CASE UNCHANGED vars
    <2>1. UNCHANGED <<site, attempt, session, hung, llmVars>>
      BY <1>3 DEF vars
    <2>2. TypeOK'
      BY <2>1 DEF IInv, TypeOK, site, session, llmVars
    <2>3. Counted' /\ Shown' /\ InStep' /\ OnWay'
      BY <2>1 DEF IInv, Counted, OneResultEach, Shown, Passed, InStep, Ends, EndOf, OnWay,
                  Tidy, Strayed, OneBack, Been, view, site, session
    <2> QED
      BY <2>1, <2>2, <2>3, SameResults DEF IInv, session
  <1> QED
    BY <1>1, <1>2, <1>3, DiscoverKeeps, NavigateKeeps, ReadKeeps, NextPageKeeps, BalanceKeeps,
       FailsKeeps, TimeoutKeeps, HomeKeeps, RetryKeeps, HangKeeps
    DEF Next, Work

-----------------------------------------------------------------------------
(* The budget                                                              *)

\* What the budget of this attempt was used for.
Used == IF calls < MaxLlmCalls THEN calls ELSE MaxLlmCalls

\* The calls without which the current account would not be where it is, when
\* the LLM does all the looking.
Taken == IF phase \in {"page", "balance"} THEN 1 + 2 * Cardinality(read)
         ELSE IF phase = "next" THEN 2 * Cardinality(read) ELSE 0

Funded ==
    /\ asked <= attempt * MaxLlmCalls + Used
    /\ IsFiniteSet(Paid)
    /\ ~hasDom => Cardinality(Paid) + Taken <= Used

\* Pages that were read can be counted.
LEMMA PagesCount ==
  ASSUME TypeOK, NEW some \in SUBSET (1..MaxPages)
  PROVE  IsFiniteSet(some) /\ Cardinality(some) \in Nat
  <1>1. IsFiniteSet(1..MaxPages)
    BY FS_Interval, ExtractionConstants
  <1> QED
    BY <1>1, FS_Subset, FS_CardinalityType

\* A call within the budget uses it, a refused one does not.
LEMMA Uses ==
  ASSUME TypeOK
  PROVE  /\ Used \in 0..MaxLlmCalls
         /\ Ask => Used' = Used + 1 /\ asked' = asked + 1
         /\ NoAsk \/ OverBudget => Used' = Used /\ asked' = asked
  BY ExtractionConstants DEF TypeOK, Used, Ask, NoAsk, OverBudget, llmVars

\* Steps of one attempt keep the bound on what was asked.
LEMMA AskedKept ==
  ASSUME TypeOK, Funded, attempt' = attempt, Ask \/ NoAsk \/ OverBudget
  PROVE  /\ (asked <= attempt * MaxLlmCalls + Used)'
         /\ Used' >= Used
  <1> DEFINE before == attempt * MaxLlmCalls
  <1>1. before \in Int /\ before' = before /\ asked \in Nat /\ Used \in Nat
    BY Uses, ExtractionConstants DEF TypeOK
  <1>2. asked <= before + Used
    BY DEF Funded
  <1> HIDE DEF before
  <1>3. asked' <= before + Used' /\ Used' >= Used
    BY <1>1, <1>2, Uses
  <1> QED
    BY <1>1, <1>3 DEF before

\* A finished account adds its price to what was paid, and nothing else.
LEMMA PaidGrows ==
  ASSUME TypeOK, IsFiniteSet(Paid), NEW new \in AccountResults, results' = Append(results, new)
  PROVE  /\ Price(new) \in Nat
         /\ IsFiniteSet(Paid') /\ Cardinality(Paid') <= Cardinality(Paid) + Price(new)
  <1> DEFINE n == Len(results)
             part == {n + 1} \X (1..Price(new))
  <1>1. Price(new) \in Nat
    BY PagesCount DEF Price, AccountResults
  <1>2. results \in Seq(AccountResults) /\ n \in Nat
    BY DEF TypeOK
  <1>3. /\ Len(results') = n + 1 /\ results'[n + 1] = new
        /\ \A k \in 1..n : results'[k] = results[k]
    BY <1>2
  <1>4. Paid' = Paid \cup part
    <2>1. Paid' = UNION {{k} \X (1..Price(results'[k])) : k \in 1..(n + 1)}
      BY <1>3 DEF Paid
    <2>2. ASSUME NEW x \in part PROVE x \in Paid'
      BY <1>2, <1>3, <2>1, <2>2
    <2>3. ASSUME NEW x \in Paid PROVE x \in Paid'
      <3>1. PICK k \in 1..n : x \in {k} \X (1..Price(results[k]))
        BY <2>3 DEF Paid
      <3>2. k \in 1..(n + 1) /\ results'[k] = results[k]
        BY <1>2, <1>3, <3>1
      <3> QED
        BY <2>1, <3>1, <3>2
    <2>4. ASSUME NEW x \in Paid' PROVE x \in Paid \cup part
      <3>1. PICK k \in 1..(n + 1) : x \in {k} \X (1..Price(results'[k]))
        BY <2>1, <2>4
      <3>2. CASE k = n + 1
        BY <1>3, <3>1, <3>2
      <3>3. CASE k \in 1..n
        <4>1. x \in {k} \X (1..Price(results[k]))
          BY <1>3, <3>1, <3>3
        <4> QED
          BY <3>3, <4>1 DEF Paid
      <3> QED
        BY <1>2, <3>2, <3>3
    <2> QED
      BY <2>2, <2>3, <2>4
  <1>5. IsFiniteSet(part) /\ Cardinality(part) = Price(new)
    <2>1. IsFiniteSet(1..Price(new)) /\ Cardinality(1..Price(new)) = Price(new)
      BY <1>1, FS_Interval
    <2>2. IsFiniteSet({n + 1}) /\ Cardinality({n + 1}) = 1
      BY FS_Singleton
    <2>3. IsFiniteSet(part) /\ Cardinality(part) = Cardinality({n + 1}) * Cardinality(1..Price(new))
      <3> HIDE DEF n
      <3> QED
        BY ONLY <2>1, <2>2, FS_Product DEF part
    <2> QED
      BY <1>1, <2>1, <2>2, <2>3
  <1> HIDE DEF part
  <1>6. /\ IsFiniteSet(Paid \cup part)
        /\ Cardinality(Paid \cup part)
             = Cardinality(Paid) + Cardinality(part) - Cardinality(Paid \cap part)
    BY <1>5, FS_Union
  <1>7. Cardinality(Paid) \in Nat /\ Cardinality(Paid \cap part) \in Nat
    <2>1. IsFiniteSet(Paid \cap part)
      BY FS_Subset, Paid \cap part \in SUBSET Paid
    <2> QED
      BY <2>1, FS_CardinalityType
  <1> QED
    BY <1>1, <1>4, <1>5, <1>6, <1>7

\* A step that finishes no account, and takes no more than it asks for.
LEMMA FundedOn ==
  ASSUME TypeOK, Funded, UNCHANGED <<hasDom, attempt, results>>,
         Ask \/ NoAsk \/ OverBudget,
         ~hasDom => Used + Taken' <= Used' + Taken, Taken \in Nat, Taken' \in Nat
  PROVE  Funded'
  <1>1. Paid' = Paid
    BY DEF Paid
  <1>2. Cardinality(Paid) \in Nat /\ Used \in Nat /\ Used' \in Nat
    BY Uses, FS_CardinalityType DEF Funded
  <1>3. ~hasDom => Cardinality(Paid) + Taken <= Used
    BY DEF Funded
  <1>4. ASSUME ~hasDom' PROVE Cardinality(Paid') + Taken' <= Used'
    <2>1. Cardinality(Paid) + Taken <= Used /\ Used + Taken' <= Used' + Taken
      BY <1>3, <1>4
    <2>2. \A paid, used, now, taken, next \in Nat :
             paid + taken <= used /\ used + next <= now + taken => paid + next <= now
      OBVIOUS
    <2>3. Cardinality(Paid) + Taken' <= Used'
      BY <1>2, <2>1, <2>2
    <2> QED
      BY <1>1, <2>3
  <1> QED
    BY <1>1, <1>4, AskedKept DEF Funded

LEMMA InitFunded == Init => Funded
  <1> SUFFICES ASSUME Init PROVE Funded
    OBVIOUS
  <1>1. Paid = {} /\ IsFiniteSet({}) /\ Cardinality({}) = 0
    BY FS_EmptySet DEF Init, Paid
  <1>2. calls = 0 /\ asked \in 0..MaxLlmCalls /\ attempt = 1 /\ phase = "discover"
    BY ExtractionConstants DEF Init
  <1>3. Used = 0 /\ Taken = 0
    BY <1>2, ExtractionConstants DEF Used, Taken
  <1>4. attempt * MaxLlmCalls = MaxLlmCalls /\ MaxLlmCalls \in Nat
    BY <1>2, ExtractionConstants
  <1> QED
    BY <1>1, <1>2, <1>3, <1>4 DEF Funded

\* An account goes one call further.
LEMMA TakesOneCall ==
  ASSUME TypeOK, TypeOK', Funded, UNCHANGED <<hasDom, attempt, results>>,
         NavigateToAccount \/ ReadPage \/ NextPage
  PROVE  Funded'
  <1>0. read \in SUBSET (1..MaxPages) /\ read' \in SUBSET (1..MaxPages)
    BY DEF TypeOK
  <1>1. /\ IsFiniteSet(read) /\ Cardinality(read) \in Nat /\ Cardinality(read') \in Nat
        /\ Taken \in Nat /\ Taken' \in Nat
    BY <1>0, PagesCount DEF Taken
  <1>2. (hasDom /\ NoAsk) \/ Ask
    BY DEF NavigateToAccount, ReadPage, NextPage, Found, Answered
  <1>3. ~hasDom => Taken' <= Taken + 1
    <2>1. CASE NavigateToAccount
      <3>1. phase = "navigate" /\ phase' = "page" /\ Cardinality(read') = 0
        BY <2>1, FS_EmptySet DEF NavigateToAccount, Step, Enter
      <3> QED
        BY <3>1 DEF Taken
    <2>2. CASE ReadPage
      <3>1. phase = "page" /\ phase' = "next"
        BY <2>2 DEF ReadPage, Step
      <3>2. read' = read \/ \E which : read' = read \cup {which}
        BY <2>2 DEF ReadPage
      <3>3. Cardinality(read') <= Cardinality(read) + 1
        <4>1. ASSUME NEW which, read' = read \cup {which}
              PROVE  Cardinality(read') = IF which \in read THEN Cardinality(read)
                                          ELSE Cardinality(read) + 1
          BY <1>1, <4>1, FS_AddElement
        <4> QED
          BY <1>1, <3>2, <4>1
      <3> QED
        BY <1>1, <3>1, <3>3 DEF Taken
    <2>3. CASE NextPage
      BY <1>1, <2>3 DEF NextPage, Step, Taken
    <2> QED
      BY <2>1, <2>2, <2>3
  <1>4. ~hasDom => Used + Taken' <= Used' + Taken
    BY <1>1, <1>2, <1>3, Uses
  <1> QED
    BY <1>1, <1>2, <1>4, FundedOn

\* An account is finished, for no more than it had taken and one call.
LEMMA FundedDone ==
  ASSUME TypeOK, TypeOK', Funded, UNCHANGED <<hasDom, attempt>>,
         NEW balance \in {"read", "default", "none"}, NEW error \in BOOLEAN,
         AccountDone(balance, error),
         Ask \/ NoAsk \/ OverBudget,
         ~hasDom /\ balance # "none" => phase = "balance" /\ Ask
  PROVE  Funded'
  <1> DEFINE new == [ok |-> ~error, balance |-> balance, worst |-> worst',
                     read |-> IF balance = "none" THEN {} ELSE read]
  <1>1. results' = Append(results, new) /\ phase' \in {"home", "returned"}
    BY DEF AccountDone
  <1>2. new \in AccountResults
    BY DEF AccountResults, TypeOK
  <1>3. Price(new) = IF balance = "none" THEN 0 ELSE 2 + 2 * Cardinality(read)
    BY DEF Price
  <1> HIDE DEF new
  <1>4. /\ Price(new) \in Nat
        /\ IsFiniteSet(Paid') /\ Cardinality(Paid') <= Cardinality(Paid) + Price(new)
    BY <1>1, <1>2, PaidGrows DEF Funded
  <1>5. /\ Cardinality(Paid) \in Nat /\ Cardinality(Paid') \in Nat
        /\ Cardinality(read) \in Nat /\ Taken \in Nat /\ Taken' = 0
    <2>1. Cardinality(read) \in Nat
      BY PagesCount DEF TypeOK
    <2> QED
      BY <1>1, <1>4, <2>1, FS_CardinalityType DEF Funded, Taken
  <1>6. ~hasDom => Cardinality(Paid') + Taken' <= Used'
    <2> SUFFICES ASSUME ~hasDom PROVE Cardinality(Paid') <= Used'
      BY <1>5
    <2>1. Cardinality(Paid) + Taken <= Used /\ Used \in Nat /\ Used' \in Nat /\ Used' >= Used
      BY Uses, AskedKept DEF Funded
    <2>2. CASE balance = "none"
      BY <1>3, <1>4, <1>5, <2>1, <2>2
    <2>3. CASE balance # "none"
      <3>1. Taken = 1 + 2 * Cardinality(read) /\ Used' = Used + 1
        BY <2>3, Uses DEF Taken
      <3> QED
        BY <1>3, <1>4, <1>5, <2>1, <2>3, <3>1
    <2> QED
      BY <2>2, <2>3
  <1> QED
    BY <1>4, <1>6, AskedKept DEF Funded

\* A session that ends.
LEMMA RaiseFunded ==
  ASSUME TypeOK, TypeOK', Funded, Raise, Ask \/ NoAsk \/ OverBudget
  PROVE  Funded'
  <1>1. UNCHANGED <<hasDom, attempt>> /\ results' = <<>> /\ Taken' = 0
    BY DEF Raise, Anew, site, Taken
  <1>2. Paid' = {} /\ IsFiniteSet({}) /\ Cardinality({}) = 0
    BY <1>1, FS_EmptySet DEF Paid
  <1>3. Used' \in Nat /\ (asked <= attempt * MaxLlmCalls + Used)'
    BY <1>1, Uses, AskedKept
  <1> QED
    BY <1>1, <1>2, <1>3 DEF Funded

\* A session that begins anew.
LEMMA RetryFunded == ASSUME TypeOK, Funded, Retry PROVE Funded'
  <1>1. /\ attempt' = attempt + 1 /\ phase' = "discover" /\ results' = <<>> /\ calls' = 0
        /\ asked' = asked
    BY DEF Retry, Anew
  <1>2. Paid' = {} /\ IsFiniteSet({}) /\ Cardinality({}) = 0
    BY <1>1, FS_EmptySet DEF Paid
  <1>3. Used' = 0 /\ Taken' = 0
    BY <1>1, ExtractionConstants DEF Used, Taken
  <1>4. attempt' * MaxLlmCalls = attempt * MaxLlmCalls + MaxLlmCalls
    BY <1>1, ExtractionConstants DEF TypeOK
  <1>5. asked <= attempt * MaxLlmCalls + Used /\ Used <= MaxLlmCalls /\ Used \in Nat
    BY Uses DEF Funded
  <1>6. attempt * MaxLlmCalls \in Int /\ asked \in Nat
    BY ExtractionConstants DEF TypeOK
  <1>7. asked' <= attempt' * MaxLlmCalls
    <2> DEFINE before == attempt * MaxLlmCalls
    <2>1. before \in Int /\ asked <= before + Used /\ attempt' * MaxLlmCalls = before + MaxLlmCalls
      BY <1>4, <1>5, <1>6
    <2> HIDE DEF before
    <2> QED
      BY <1>1, <1>5, <1>6, <2>1, ExtractionConstants
  <1>8. attempt' * MaxLlmCalls \in Int
    BY <1>1, ExtractionConstants DEF TypeOK
  <1> QED
    BY <1>2, <1>3, <1>7, <1>8 DEF Funded

LEMMA StepFunded == IInv /\ IInv' /\ Funded /\ [Next]_vars => Funded'
  <1> SUFFICES ASSUME TypeOK, TypeOK', Funded, [Next]_vars PROVE Funded'
    BY DEF IInv
  <1>1. CASE Discover
    <2>1. UNCHANGED <<hasDom, attempt, results>> /\ (Ask \/ NoAsk) /\ Taken = 0 /\ Taken' = 0
      BY <1>1 DEF Discover, Step, site, Taken
    <2>2. Used + Taken' <= Used' + Taken
      BY <2>1, Uses, AskedKept
    <2> QED
      BY <2>1, <2>2, FundedOn
  <1>2. CASE NavigateToAccount \/ ReadPage \/ NextPage
    <2>1. UNCHANGED <<hasDom, attempt, results>>
      BY <1>2 DEF NavigateToAccount, ReadPage, NextPage, Step, Enter, site
    <2> QED
      BY <1>2, <2>1, TakesOneCall
  <1>3. CASE GetBalance
    <2>1. UNCHANGED <<hasDom, attempt>> /\ phase = "balance" /\ ((hasDom /\ NoAsk) \/ Ask)
          /\ (AccountDone("read", FALSE) \/ AccountDone("default", FALSE))
      BY <1>3 DEF GetBalance, Step, Found, Answered, site
    <2> QED
      BY <2>1, FundedDone
  <1>4. CASE AccountFails \/ AccountTimeout
    <2>1. /\ UNCHANGED <<hasDom, attempt>> /\ (Ask \/ NoAsk \/ OverBudget)
          /\ \E text \in BOOLEAN : AccountDone("none", text)
      BY <1>4 DEF AccountFails, AccountTimeout, Answered, site
    <2> QED
      BY <2>1, FundedDone
  <1>5. CASE NavigateToDashboard
    <2>1. UNCHANGED <<hasDom, attempt, results>> /\ NoAsk /\ Taken = 0 /\ Taken' = 0
      BY <1>5 DEF NavigateToDashboard, Step, GoOn, site, Taken
    <2>2. Used + Taken' <= Used' + Taken
      BY <2>1, Uses
    <2> QED
      BY <2>1, <2>2, FundedOn
  <1>6. CASE SessionFails \/ WorkerDies
    BY <1>6, RaiseFunded DEF SessionFails, WorkerDies
  <1>7. CASE Retry
    BY <1>7, RetryFunded
  <1>8. CASE Hang \/ UNCHANGED vars
    <2>1. UNCHANGED <<site, attempt, session, llmVars>>
      BY <1>8 DEF Hang, vars
    <2>2. UNCHANGED <<Used, Taken, Paid, hasDom, attempt, asked>>
      BY <2>1 DEF site, session, llmVars, Used, Taken, Paid
    <2> QED
      BY <2>2 DEF Funded
  <1> QED
    BY <1>1, <1>2, <1>3, <1>4, <1>5, <1>6, <1>7, <1>8 DEF Next, Work

-----------------------------------------------------------------------------
(* Theorems                                                                *)

\* The strengthening of the properties below is an invariant.
THEOREM Invariance == Spec => []IInv
  <1> QED
    BY InitIInv, StepIInv, PTL DEF Spec

\* Whatever the bank's pages and the LLM do, the loops stay within the accounts
\* listed and the pages the cap allows.
THEOREM TypeCorrect == Spec => []TypeOK
  <1>1. IInv => TypeOK
    BY DEF IInv
  <1> QED
    BY Invariance, <1>1, PTL

\* Whatever failed, hung or ran out of budget, each account has one result.
THEOREM ResultsComplete == Spec => []OneResultEach
  <1>1. IInv => OneResultEach
    BY DEF IInv, Counted
  <1> QED
    BY Invariance, <1>1, PTL

\* Whatever number of pages and accounts there is, an account that is reported
\* as extracted on usable answers has its own history without a gap, and the
\* balance that was read.
THEOREM HistoriesFaithful == Spec => []HistoryIsFaithful
  <1>1. IInv => HistoryIsFaithful
    BY DEF IInv
  <1> QED
    BY Invariance, <1>1, PTL

\* An account is looked for from the dashboard unless one strayed since the
\* session began or a link last led home: going back leads there from an account
\* that was read well, and a link from anywhere.
THEOREM StartsAtDashboard == Spec => []StartsFromDashboard
  <1>1. ASSUME IInv PROVE StartsFromDashboard
    <2> SUFFICES ASSUME phase = "navigate", view # Dashboard
                 PROVE  \E k \in (homed + 1)..(current - 1) : Strayed(k)
      BY DEF StartsFromDashboard
    <2>1. ~Tidy
      BY <1>1 DEF IInv, OnWay
    <2>2. Len(results) = current - 1
      BY <1>1, Phases DEF IInv, Counted, OneResultEach
    <2> QED
      BY <2>1, <2>2 DEF Tidy
  <1> QED
    BY Invariance, <1>1, PTL

\* Whatever the bank and the LLM do, and however often the step is repeated, the
\* login and the attempts ask no more than the budget each, and an adapter without
\* selectors has paid for every account that it reads.
THEOREM BudgetKept == Spec => []BudgetIsKept
  <1>1. Spec => []Funded
    BY Invariance, InitFunded, StepFunded, PTL DEF Spec
  <1>2. ASSUME IInv, Funded PROVE BudgetIsKept
    <2>1. /\ attempt \in Nat /\ MaxLlmCalls \in Nat /\ asked \in Nat
          /\ attempt * MaxLlmCalls \in Int /\ Used <= MaxLlmCalls /\ Used \in Nat
      BY <1>2, Uses, ExtractionConstants DEF IInv, TypeOK
    <2>2. asked <= (1 + attempt) * MaxLlmCalls
      <3> DEFINE before == attempt * MaxLlmCalls
      <3>1. (1 + attempt) * MaxLlmCalls = before + MaxLlmCalls
        BY <2>1
      <3>2. asked <= before + Used /\ before \in Int
        BY <1>2, <2>1 DEF Funded
      <3> HIDE DEF before
      <3> QED
        BY <2>1, <3>1, <3>2
    <2>3. ~hasDom => Cardinality(Paid) <= MaxLlmCalls
      <3>1. Cardinality(Paid) \in Nat /\ Taken \in Nat
        <4>1. Cardinality(read) \in Nat
          BY <1>2, PagesCount DEF IInv, TypeOK
        <4> QED
          BY <1>2, <4>1, FS_CardinalityType DEF Funded, Taken
      <3> QED
        BY <1>2, <2>1, <3>1 DEF Funded
    <2> QED
      BY <2>2, <2>3 DEF BudgetIsKept
  <1> QED
    BY Invariance, <1>1, <1>2, PTL

=============================================================================
