----------------------------- MODULE Templates -----------------------------
(* Task templates: those of the marketplace, which users rate and use      *)
(* (routers/marketplace.py), and a requester's own, which may be published *)
(* for others to import (routers/requester_templates.py).  Only rating     *)
(* locks the template; every other request reads, decides, and writes the  *)
(* columns it changed, waiting at most for a lock.                         *)
EXTENDS Integers, FiniteSets, FiniteSetsExt

CONSTANTS
  Clients,       \* requests that may be under way at once
  Designs, Raters, Stars,
  Items, Authors,
  MaxItems,     \* MAX_TEMPLATES_PER_USER
  MaxUses, MaxClashes,
  Absent           \* no row

ASSUME TemplatesAssumption ==
  /\ {MaxItems, MaxUses, MaxClashes} \subseteq Nat /\ Stars \subseteq Nat \ {0}
  /\ IsFiniteSet(Raters) /\ IsFiniteSet(Items) /\ Designs \cap Items = {}
  /\ Absent \notin [public : BOOLEAN, sum : Int, count : Int, uses : Nat]

VARIABLES
  design,   \* the rows of task_templates_marketplace
  rating,   \* the rows of task_template_ratings: the stars, 0 if there is none
  item,     \* the rows of requester_saved_templates
  systems,  \* how often the system's own templates were inserted
  client,    \* requests and what they read
  used,     \* history: how often a template was used
  taken,    \* history: how often a published template was imported
  clashes   \* history: writes decided on what others had changed by then

templateVars == <<design, rating, item, systems, client, used, taken, clashes>>

NoClient == [for |-> "nothing"]
Idle(v) == client[v] = NoClient
Browsing(v, what) == client[v].for = what

Library(a) == {i \in Items : item[i] # Absent /\ item[i].owner = a}
NewItem(a) == [owner |-> a, public |-> FALSE, imports |-> 0, uses |-> 0]

TemplatesTypeOK ==
  /\ \A d \in Designs : design[d] = Absent \/ design[d].count \in 0..Cardinality(Raters)
  /\ rating \in [Designs -> [Raters -> Stars \cup {0}]]
  /\ \A i \in Items : item[i] = Absent \/ item[i].owner \in Authors
  /\ systems \in Nat /\ clashes \in 0..MaxClashes

TemplatesInit ==
  /\ design = [d \in Designs |-> Absent]
  /\ rating = [d \in Designs |-> [u \in Raters |-> 0]]
  /\ item = [i \in Items |-> Absent]
  /\ systems = 0 /\ clashes = 0
  /\ client = [v \in Clients |-> NoClient]
  /\ used = [t \in Designs \cup Items |-> 0] /\ taken = [i \in Items |-> 0]

Closed(v) == client' = [client EXCEPT ![v] = NoClient]
Clashing(changed) == clashes' = (IF changed THEN clashes + 1 ELSE clashes) /\ clashes' <= MaxClashes

(* A rating holds the lock on its template; an update waits for it.        *)
AlwaysFree(d) == TRUE \* mutant
Free(d) == \A v \in Clients : ~(Browsing(v, "rate") /\ client[v].of = d)

CreateDesign(d) ==
  /\ design[d] = Absent /\ used[d] = 0
  /\ \E public \in BOOLEAN : design' = [design EXCEPT ![d] = [public |-> public, sum |-> 0, count |-> 0, uses |-> 0]]
  /\ UNCHANGED <<rating, item, systems, client, used, taken, clashes>>

UpdateDesign(d) ==
  /\ design[d] # Absent /\ Free(d)
  /\ \E public \in BOOLEAN : design' = [design EXCEPT ![d].public = public]
  /\ UNCHANGED <<rating, item, systems, client, used, taken, clashes>>

(* The ratings go with the template.                                       *)
DeleteDesign(d) ==
  /\ design[d] # Absent /\ Free(d)
  /\ design' = [design EXCEPT ![d] = Absent]
  /\ rating' = [rating EXCEPT ![d] = [u \in Raters |-> 0]]
  /\ UNCHANGED <<item, systems, client, used, taken, clashes>>

LockDesign(v, d, u) ==
  /\ Idle(v) /\ design[d] # Absent /\ design[d].public /\ Free(d)
  /\ client' = [client EXCEPT ![v] = [for |-> "rate", of |-> d, who |-> u, seen |-> design[d]]]
  /\ UNCHANGED <<design, rating, item, systems, used, taken, clashes>>

Rated(row, old, new) ==
  [row EXCEPT !.sum = @ + new - old, !.count = IF old = 0 THEN @ + 1 ELSE @]
Rate(v, stars) ==
  /\ Browsing(v, "rate")
  /\ LET d == client[v].of
         u == client[v].who
         new == Rated(client[v].seen, rating[d][u], stars)
     IN /\ design[d] # Absent
        /\ design' = [design EXCEPT ![d].sum = new.sum, ![d].count = new.count]
        /\ rating' = [rating EXCEPT ![d][u] = stars]
  /\ Closed(v) /\ UNCHANGED <<item, systems, used, taken, clashes>>

ReadDesign(v, d) ==
  /\ Idle(v) /\ design[d] # Absent
  /\ client' = [client EXCEPT ![v] = [for |-> "use", of |-> d, seen |-> design[d].uses]]
  /\ UNCHANGED <<design, rating, item, systems, used, taken, clashes>>
UseDesign(v) ==
  /\ Browsing(v, "use") /\ Closed(v)
  /\ LET d == client[v].of IN
     IF design[d] = Absent THEN UNCHANGED <<design, used, clashes>>  \* the update finds no row
     ELSE /\ Free(d) /\ used[d] < MaxUses
          /\ design' = [design EXCEPT ![d].uses = client[v].seen + 1]
          /\ used' = [used EXCEPT ![d] = @ + 1]
          /\ Clashing(design[d].uses # client[v].seen)
  /\ UNCHANGED <<rating, item, systems, taken>>

(* The first lists of templates insert the system's, if they find none.    *)
CountSystem(v) ==
  /\ Idle(v) /\ systems = 0
  /\ client' = [client EXCEPT ![v] = [for |-> "seed"]]
  /\ UNCHANGED <<design, rating, item, systems, used, taken, clashes>>
SeedSystem(v) ==
  /\ Browsing(v, "seed") /\ Closed(v)
  /\ systems' = systems + 1 /\ Clashing(systems # 0)
  /\ UNCHANGED <<design, rating, item, used, taken>>

UnderLimit(a) == Cardinality(Library(a)) < MaxItems
CountLibrary(v, a) ==
  /\ Idle(v) /\ UnderLimit(a)
  /\ client' = [client EXCEPT ![v] = [for |-> "create", who |-> a, seen |-> Library(a)]]
  /\ UNCHANGED <<design, rating, item, systems, used, taken, clashes>>
CreateItem(v, i) ==
  /\ Browsing(v, "create") /\ Closed(v)
  /\ item[i] = Absent /\ used[i] = 0 /\ taken[i] = 0
  /\ item' = [item EXCEPT ![i] = NewItem(client[v].who)]
  /\ Clashing(Library(client[v].who) # client[v].seen)
  /\ UNCHANGED <<design, rating, systems, used, taken>>

DeleteItem(i) ==
  /\ item[i] # Absent /\ item' = [item EXCEPT ![i] = Absent]
  /\ UNCHANGED <<design, rating, systems, client, used, taken, clashes>>
Publish(i) ==
  /\ item[i] # Absent /\ item' = [item EXCEPT ![i].public = TRUE]
  /\ UNCHANGED <<design, rating, systems, client, used, taken, clashes>>
Unpublish(i) ==
  /\ item[i] # Absent /\ item' = [item EXCEPT ![i].public = FALSE]
  /\ UNCHANGED <<design, rating, systems, client, used, taken, clashes>>

ReadOwn(v, i) ==
  /\ Idle(v) /\ item[i] # Absent
  /\ client' = [client EXCEPT ![v] = [for |-> "own", of |-> i, seen |-> item[i].uses]]
  /\ UNCHANGED <<design, rating, item, systems, used, taken, clashes>>
UseItem(v) ==
  /\ Browsing(v, "own") /\ Closed(v)
  /\ LET i == client[v].of IN
     IF item[i] = Absent THEN UNCHANGED <<item, used, clashes>>
     ELSE /\ used[i] < MaxUses
          /\ item' = [item EXCEPT ![i].uses = client[v].seen + 1]
          /\ used' = [used EXCEPT ![i] = @ + 1]
          /\ Clashing(item[i].uses # client[v].seen)
  /\ UNCHANGED <<design, rating, systems, taken>>

ReadPublished(v, i, a) ==
  /\ Idle(v) /\ item[i] # Absent /\ item[i].public /\ item[i].owner # a /\ UnderLimit(a)
  /\ client' = [client EXCEPT ![v] = [for |-> "import", of |-> i, who |-> a,
                                    seen |-> [imports |-> item[i].imports, library |-> Library(a)]]]
  /\ UNCHANGED <<design, rating, item, systems, used, taken, clashes>>
Import(v, j) ==
  /\ Browsing(v, "import") /\ Closed(v)
  /\ LET i == client[v].of
         a == client[v].who
         seen == client[v].seen
     IN
     IF item[i] = Absent THEN UNCHANGED <<item, taken, clashes>>     \* the copy is undone
     ELSE /\ item[j] = Absent /\ used[j] = 0 /\ taken[j] = 0 /\ taken[i] < MaxUses
          /\ item' = [item EXCEPT ![j] = NewItem(a), ![i].imports = seen.imports + 1]
          /\ taken' = [taken EXCEPT ![i] = @ + 1]
          /\ Clashing(item[i].imports # seen.imports \/ Library(a) # seen.library)
  /\ UNCHANGED <<design, rating, systems, used>>

MarketNext ==
  \/ \E d \in Designs : \/ CreateDesign(d) \/ UpdateDesign(d) \/ DeleteDesign(d)
                        \/ \E v \in Clients : ReadDesign(v, d) \/ \E u \in Raters : LockDesign(v, d, u)
  \/ \E v \in Clients : \/ UseDesign(v) \/ CountSystem(v) \/ SeedSystem(v)
                       \/ \E stars \in Stars : Rate(v, stars)
LibraryNext ==
  \/ \E i \in Items : \/ DeleteItem(i) \/ Publish(i) \/ Unpublish(i)
                      \/ \E v \in Clients : \/ CreateItem(v, i) \/ Import(v, i) \/ ReadOwn(v, i)
                                           \/ \E a \in Authors : ReadPublished(v, i, a)
  \/ \E v \in Clients : UseItem(v) \/ \E a \in Authors : CountLibrary(v, a)
TemplatesNext == MarketNext \/ LibraryNext
TemplatesSpec == TemplatesInit /\ [][TemplatesNext]_templateVars

-----------------------------------------------------------------------------
(* A template's rating is the sum and number of the rows behind it, in     *)
(* every overlap of ratings, uses, updates and a deletion.  The counters   *)
(* of uses and imports never run ahead, and lag only if a request wrote    *)
(* one over another's; each request that was decided on what others had    *)
(* changed by then lets at most one template into a full library, or one   *)
(* set of the system's templates beside the first.                         *)
Counted(counter, times) == counter <= times /\ (clashes = 0 => counter = times)
TemplatesKept ==
  /\ \A d \in Designs : design[d] # Absent =>
       /\ design[d].sum = MapThenSumSet(LAMBDA u : rating[d][u], Raters)
       /\ design[d].count = Cardinality({u \in Raters : rating[d][u] # 0})
       /\ Counted(design[d].uses, used[d])
  /\ \A i \in Items : item[i] # Absent =>
       Counted(item[i].uses, used[i]) /\ Counted(item[i].imports, taken[i])
  /\ \A a \in Authors : Cardinality(Library(a)) <= MaxItems + clashes
  /\ systems <= 1 + clashes
=============================================================================
