------------------------------- MODULE Reviews -------------------------------
(***************************************************************************)
(* The Google reviews of a tenant.  Two sources fill the same table: the   *)
(* Business Profile API lists all reviews, page by page, once an owner has *)
(* pinned the account; the Places API gives a few of them and the total.   *)
(* Each is asked every hour, and when a manager says so.                   *)
(*                                                                         *)
(* A configuration stands at the location that was first at hand when the  *)
(* account was connected.  A refresh from Places learns the place of the   *)
(* listing, and moves the configuration with its reviews to the location   *)
(* with that place, over a configuration that stands there.                *)
(*                                                                         *)
(* A sync writes at the location it read at its start, and commits at its  *)
(* end or where Google refuses another page.                               *)
(***************************************************************************)
EXTENDS Naturals, FiniteSets

CONSTANTS
  Handler,       \* workers and request handlers
  Location,
  FirstLocation, \* the tenant's first location
  Home,          \* the location of the listing at Google
  Config,        \* configurations
  FirstConfig,
  Review,        \* reviews at Google
  MaxOccurred    \* bound on disconnections and failures

Nowhere == "nowhere"

ASSUME ReviewsAssumption ==
  FirstLocation \in Location /\ Home \in Location /\ FirstConfig \in Config /\ Nowhere \notin Location

VARIABLES
  placed,    \* whether the location Home has its place entered
  configs,   \* the configurations
  google,    \* the reviews there are at Google
  rows,      \* where a review is stored, as each source names it
  snapshots, \* locations with a snapshot of rating and total
  job,      \* what each process does
  occurred,
  pin,       \* history: whether an account has been pinned, or a pin been given up since
  stranded   \* history: locations written to that no longer had a configuration

reviewsHistory == <<pin, stranded>>
reviewsVars == <<placed, configs, google, rows, snapshots, job, occurred, reviewsHistory>>

Source  == {"business", "places"}
Row     == Source \X Review
NoJob    == [pc |-> "idle"]
Absent  == [loc |-> Nowhere, active |-> FALSE, pinned |-> FALSE]

\* The configuration that a consent makes
New(l) == [Absent EXCEPT !.loc = l, !.active = TRUE]

Occurs == occurred < MaxOccurred /\ occurred' = occurred + 1

At(l) == {c \in Config : configs[c].loc = l}

\* get_summary: what is stored at a location counts there, whoever wrote it
Counts(l) == \E k \in Row : rows[k] = l

ReviewsTypeOK ==
  /\ placed \in BOOLEAN /\ google \subseteq Review
  /\ configs \in [Config -> [loc : Location \cup {Nowhere}, active : BOOLEAN, pinned : BOOLEAN]]
  /\ rows \in [Row -> Location \cup {Nowhere}]
  /\ snapshots \subseteq Location
  /\ \A p \in Handler : job[p].pc \in {"idle", "business", "places", "next"}
  /\ pin \in {"never", "pinned", "given up"} /\ stranded \subseteq Location

ReviewsInit ==
  /\ placed \in BOOLEAN
  /\ configs = [c \in Config |->
       IF c = FirstConfig THEN New(FirstLocation) ELSE Absent]
  /\ google = {}
  /\ rows = [k \in Row |-> Nowhere]
  /\ snapshots = {}
  /\ job = [p \in Handler |-> NoJob]
  /\ occurred = 0
  /\ pin = "never" /\ stranded = {}

Available(p) == job[p] = NoJob /\ p = CHOOSE q \in Handler : job[q] = NoJob

-----------------------------------------------------------------------------
(* The owner, and Google *)

\* Somebody writes a review
Publish(r) ==
  /\ r \notin google
  /\ google' = google \cup {r}
  /\ UNCHANGED <<placed, configs, rows, snapshots, job, occurred, reviewsHistory>>

\* The owner enters the place of the listing at its location
EnterPlace ==
  /\ ~placed
  /\ placed' = TRUE
  /\ UNCHANGED <<configs, google, rows, snapshots, job, occurred, reviewsHistory>>

\* Google returns from the consent: the configuration of a location with a place, or of the
\* first, starts anew and has to be pinned again
ConnectListing(c) ==
  LET l == IF placed THEN Home ELSE FirstLocation IN
  /\ IF At(l) # {} THEN c \in At(l) ELSE configs[c] = Absent
  /\ configs' = [configs EXCEPT ![c] = New(l)]
  /\ pin' = IF configs[c].pinned THEN "given up" ELSE pin
  /\ UNCHANGED <<placed, google, rows, snapshots, job, occurred, stranded>>

\* deactivate_config: the row stays, with its pin
Deactivated(c) == [configs EXCEPT ![c].active = FALSE]

DisconnectListing(c) ==
  /\ Occurs
  /\ configs[c].active
  /\ configs' = Deactivated(c)
  /\ UNCHANGED <<placed, google, rows, snapshots, job, reviewsHistory>>

\* set_manual_location
Pinned(c) == [configs EXCEPT ![c].pinned = TRUE]

\* The account is entered, or found by a search at Google
Pin(c) ==
  /\ configs[c] # Absent /\ ~configs[c].pinned
  /\ configs' = Pinned(c)
  /\ pin' = "pinned"
  /\ UNCHANGED <<placed, google, rows, snapshots, job, occurred, stranded>>

-----------------------------------------------------------------------------
(* All reviews, from the Business Profile API *)

Begin(p, c) ==
  [job EXCEPT ![p] = [pc |-> "business", config |-> c, loc |-> configs[c].loc,
                       todo |-> google, got |-> {}]]

\* mutant: only the first configuration is asked for
StartReviewsFirst(p, c) ==
  /\ c = FirstConfig
  /\ Available(p)
  /\ configs[c].active /\ configs[c].pinned
  /\ job' = Begin(p, c)
  /\ UNCHANGED <<placed, configs, google, rows, snapshots, occurred, reviewsHistory>>

\* The message names a location: without a configuration there, or a pin, nothing is done
StartReviews(p, c) ==
  /\ Available(p)
  /\ configs[c].active /\ configs[c].pinned
  /\ job' = Begin(p, c)
  /\ UNCHANGED <<placed, configs, google, rows, snapshots, occurred, reviewsHistory>>

Page(p, r) ==
  /\ job[p].pc = "business" /\ r \in job[p].todo
  /\ job' = [job EXCEPT ![p].todo = @ \ {r}, ![p].got = @ \cup {r}]
  /\ UNCHANGED <<placed, configs, google, rows, snapshots, occurred, reviewsHistory>>

\* The rows after the reviews rs are written at l: one that is there already stays where it is
Upsert(old, source, rs, l) ==
  [k \in Row |-> IF k[1] = source /\ k[2] \in rs /\ old[k] = Nowhere THEN l ELSE old[k]]

\* What is written at a location that has no configuration any more
Strands(l) == stranded' = IF At(l) = {} THEN stranded \cup {l} ELSE stranded

\* save_snapshot: that of the day at l is inserted or replaced
Saved(old, l) == old \cup {l}

FinishReviews(p) ==
  LET l == job[p].loc IN
  /\ job[p].pc = "business" /\ job[p].todo = {}
  /\ rows' = Upsert(rows, "business", job[p].got, l)
  /\ snapshots' = Saved(snapshots, l)
  /\ Strands(l)
  /\ job' = [job EXCEPT ![p] = NoJob]
  /\ UNCHANGED <<placed, configs, google, occurred, pin>>

\* Google does not answer, nor with the account's token renewed
NotAnswered == Occurs

\* Google refuses a page, one that new reviews have added it may be: what came before is kept
RefusePage(p) ==
  /\ NotAnswered
  /\ job[p].pc = "business"
  /\ rows' = Upsert(rows, "business", job[p].got, job[p].loc)
  /\ Strands(job[p].loc)
  /\ job' = [job EXCEPT ![p] = NoJob]
  /\ UNCHANGED <<placed, configs, google, snapshots, pin>>

-----------------------------------------------------------------------------
(* Some reviews and the snapshots, from Places *)

\* Every hour, or when a manager says so; now: and goes on with all reviews.  Whether the
\* place has been found before, is that of a location or named by the manager is left open
StartRefresh(p, c, now) ==
  /\ Available(p)
  /\ configs[c].active
  /\ \E some \in SUBSET google :
       job' = [job EXCEPT ![p] = [pc |-> "places", config |-> c, loc |-> configs[c].loc,
                                   todo |-> {}, got |-> some, now |-> now]]
  /\ UNCHANGED <<placed, configs, google, rows, snapshots, occurred, reviewsHistory>>

\* mutant: the reviews are left behind
MoveNone(old, new) == rows

\* The rows after those of location old have moved to new
Move(old, new) == [k \in Row |-> IF rows[k] = old THEN new ELSE rows[k]]

\* mutant: the configuration is entered anew
RepointAnew(c, l) ==
  [d \in Config |-> IF d = c THEN New(l)
                    ELSE IF configs[d].loc = l THEN Absent ELSE configs[d]]

\* Configuration c moves to a location; one that stands there is removed
Repoint(c, l) ==
  [d \in Config |-> IF d = c THEN [configs[c] EXCEPT !.loc = l]
                    ELSE IF configs[d].loc = l THEN Absent ELSE configs[d]]

\* Where the answer of Places is written: at the location of its place, if there is one
Target(p) == IF placed THEN Home ELSE job[p].loc
Moves(p)  == Target(p) # job[p].loc

\* What a manager has asked for goes on with the sync
After(p, l) ==
  [job EXCEPT ![p] = IF job[p].now THEN [job[p] EXCEPT !.pc = "next", !.loc = l] ELSE NoJob]

\* The rows after the answer of Places has been written where it belongs
Refreshed(p) ==
  Upsert(IF Moves(p) THEN Move(job[p].loc, Target(p)) ELSE rows,
         "places", job[p].got, Target(p))

FinishRefresh(p) ==
  LET l == Target(p)
      c == job[p].config IN
  /\ job[p].pc = "places" /\ (Moves(p) => configs[c] # Absent)
  /\ rows' = Refreshed(p)
  /\ snapshots' = Saved(snapshots \ {job[p].loc}, l)
  /\ IF Moves(p)
     THEN /\ configs' = Repoint(c, l)
          /\ pin' = IF \E d \in At(l) \ {c} : configs[d].pinned THEN "given up" ELSE pin
          /\ UNCHANGED stranded
     ELSE Strands(l) /\ UNCHANGED <<configs, pin>>
  /\ job' = After(p, l)
  /\ UNCHANGED <<placed, google, occurred>>

\* Places refuses: the sync goes on without
RefusePlaces(p) ==
  /\ Occurs
  /\ job[p].pc = "places"
  /\ job' = After(p, job[p].loc)
  /\ UNCHANGED <<placed, configs, google, rows, snapshots, reviewsHistory>>

\* The sync that a manager has asked for begins where the refresh has left the configuration
GoOn(p) ==
  LET ready == {c \in At(job[p].loc) : configs[c].active /\ configs[c].pinned} IN
  /\ job[p].pc = "next"
  /\ job' = IF ready = {} THEN [job EXCEPT ![p] = NoJob] ELSE Begin(p, CHOOSE c \in ready : TRUE)
  /\ UNCHANGED <<placed, configs, google, rows, snapshots, occurred, reviewsHistory>>

\* A configuration that is gone is not moved, and a place found not entered there: nothing is written
FailRefresh(p) ==
  /\ job[p].pc = "places" /\ configs[job[p].config] = Absent
  /\ job' = [job EXCEPT ![p] = NoJob]
  /\ UNCHANGED <<placed, configs, google, rows, snapshots, occurred, reviewsHistory>>

\* The database refuses, or the process is lost
Interrupt(p) ==
  /\ Occurs
  /\ job[p] # NoJob
  /\ job' = [job EXCEPT ![p] = NoJob]
  /\ UNCHANGED <<placed, configs, google, rows, snapshots, reviewsHistory>>

-----------------------------------------------------------------------------
Step(p) ==
  \/ FinishReviews(p) \/ FinishRefresh(p) \/ FailRefresh(p) \/ GoOn(p)
  \/ \E r \in Review : Page(p, r)

ReviewsNext ==
  \/ EnterPlace
  \/ \E r \in Review : Publish(r)
  \/ \E c \in Config :
       \/ ConnectListing(c) \/ DisconnectListing(c) \/ Pin(c)
       \/ \E p \in Handler : StartReviews(p, c) \/ \E now \in BOOLEAN : StartRefresh(p, c, now)
  \/ \E p \in Handler : Step(p) \/ RefusePage(p) \/ RefusePlaces(p) \/ Interrupt(p)

\* The beat asks for a sync of each configuration every hour, and what has begun goes on;
\* other work does not keep a sync from its turn for ever
ReviewsFairness ==
  /\ \A p \in Handler : WF_reviewsVars(Step(p))
  /\ \A c \in Config : SF_reviewsVars(\E p \in Handler : StartReviews(p, c))

ReviewsSpec == ReviewsInit /\ [][ReviewsNext]_reviewsVars /\ ReviewsFairness

-----------------------------------------------------------------------------
\* Reviews and snapshots are where a configuration is, over any number of moves of the
\* configurations, so that the numbers of a location count them.  Not so those that a sync
\* of the old location writes after the move.
RowsFollowConfig ==
  \A l \in Location \ stranded :
    l \in snapshots \/ Counts(l) => At(l) # {}

\* An account that is pinned stays so, and with it the import of all reviews, unless it is
\* connected again or its configuration gives way to one that moves.
PinStays == pin = "pinned" => \E c \in Config : configs[c].pinned

\* A review gets stored as long as there is a connected account that is pinned.
ReviewsArrive ==
  \A r \in Review :
    r \in google ~> (rows[<<"business", r>>] # Nowhere
                     \/ ~\E c \in Config : configs[c].active /\ configs[c].pinned)
=============================================================================
