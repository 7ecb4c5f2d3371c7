---------------------------- MODULE VehicleSales ----------------------------
(***************************************************************************)
(* Lots of vehicles offered to merchants (app/web/vehicle_sales.py): the   *)
(* versions of a proposal, their lines, and the sale status of each        *)
(* vehicle with the lot that it is reserved or sold for.                   *)
(*                                                                         *)
(* A request loads rows without a lock, decides by what it loaded, and     *)
(* writes the columns it changed.  A prompt request sees the rows as they  *)
(* are, a slow one holds its view while others commit; v is what the       *)
(* request loaded.  A request that the database refuses changes nothing.   *)
(***************************************************************************)
EXTENDS Integers, FiniteSets

CONSTANTS
  Slow,          \* requests that may be overtaken by others
  Vehicles,
  Default,       \* vehicle -> its status before it has a profile
  Lots,          \* roots of the references of proposals
  MaxVersion,    \* bound on the versions of a proposal
  HandStatuses,  \* statuses that users set by hand
  MaxCommits,    \* bound on the committed requests
  None

SaleStatus == {"candidate", "for_sale", "do_not_sell", "reserved", "sold", "delivered"}

(* The statuses a lot gives, and those that keep another lot away.         *)
Held == {"reserved", "sold"}

ASSUME SalesAssumption ==
  /\ MaxVersion \in Nat /\ MaxCommits \in Nat
  /\ HandStatuses \subseteq SaleStatus
  /\ Default \in [Vehicles -> {"candidate", "for_sale", "sold"}]
  /\ None \notin Lots

(* A reference is the root and, from the second on, the version.           *)
Proposals == Lots \X (1 .. MaxVersion)
ProposalStatus == {"none", "draft", "sent", "cancelled", "completed"}
Line == {"absent", "included", "excluded"}

VARIABLES
  proposal,  \* proposal -> status
  lines,     \* proposal -> vehicle -> its line
  profile,   \* vehicle -> its sale profile: status, status_reference
  view,      \* slow request -> the rows as it loaded them, None before
  commits,   \* committed requests, counted for MaxCommits
  loose      \* history: the vehicles whose lot comes from a draft, or whose
             \* rows an overtaken request wrote

vars == <<proposal, lines, profile, view, commits, loose>>

NoLines == [x \in Vehicles |-> "absent"]

Init ==
  /\ proposal = [p \in Proposals |-> "none"]
  /\ lines = [p \in Proposals |-> NoLines]
  /\ profile = [x \in Vehicles |-> [status |-> "none", lot |-> None]]
  /\ view = [r \in Slow |-> None]
  /\ commits = 0 /\ loose = {}

Seen == [proposal |-> proposal, lines |-> lines, profile |-> profile]

(* MaxCommits leaves room for the request and for one that overtakes it.   *)
Load(r) ==
  /\ view[r] = None /\ commits + 2 <= MaxCommits
  /\ view' = [view EXCEPT ![r] = Seen]
  /\ UNCHANGED <<proposal, lines, profile, commits, loose>>

-----------------------------------------------------------------------------
(* Proposals.                                                              *)

Included(v, p) == {x \in Vehicles : v.lines[p][x] = "included"}
Listed(v, p) == {x \in Vehicles : v.lines[p][x] # "absent"}

(* Mutant: what was sent can still be edited.                              *)
EditableSent(v, p) == v.proposal[p] \in {"draft", "sent"}

(* The status as the request loaded it.                                    *)
Editable(v, p) == v.proposal[p] = "draft"

(* The lines of S become what F says; loose are those of a version that    *)
(* left its draft meanwhile.                                               *)
WriteLines(v, p, S, F) ==
  /\ lines' = [lines EXCEPT ![p] = [x \in Vehicles |-> IF x \in S THEN F[x] ELSE @[x]]]
  /\ loose' = IF v.proposal[p] = proposal[p] THEN loose ELSE loose \cup S
  /\ UNCHANGED <<proposal, profile>>

(* The bulk action of the list: the id of a new proposal is its lot.       *)
CreateProposal ==
  \E l \in Lots, S \in SUBSET Vehicles :
    /\ 1 <= MaxVersion /\ proposal[<<l, 1>>] = "none"
    /\ proposal' = [proposal EXCEPT ![<<l, 1>>] = "draft"]
    /\ lines' = [lines EXCEPT ![<<l, 1>>] =
                   [x \in Vehicles |-> IF x \in S THEN "included" ELSE "absent"]]
    /\ UNCHANGED <<profile, loose>>

(* A line that is gone refuses the save if it has to be written.           *)
SaveLines(v, p) ==
  \E I \in SUBSET Listed(v, p) :
    LET new == [x \in Vehicles |-> IF x \in I THEN "included" ELSE "excluded"]
        changed == {x \in Listed(v, p) : new[x] # v.lines[p][x]}
    IN
    /\ Editable(v, p)
    /\ \A x \in changed : lines[p][x] # "absent"
    /\ WriteLines(v, p, changed, new)

RemoveLine(v, p) ==
  /\ Editable(v, p)
  /\ \E x \in Listed(v, p) : WriteLines(v, p, {x}, NoLines)

(* Lines are unique: a vehicle that was added meanwhile refuses the rest.  *)
AddVehicles(v, p) ==
  \E S \in SUBSET (Vehicles \ Listed(v, p)) :
    /\ Editable(v, p)
    /\ S # {} /\ \A x \in S : lines[p][x] = "absent"
    /\ WriteLines(v, p, S, [x \in Vehicles |-> "included"])

Send(v, p) ==
  /\ Editable(v, p)
  /\ proposal' = [proposal EXCEPT ![p] = "sent"]
  /\ UNCHANGED <<lines, profile, loose>>

(* Whatever the status was; it is written if it is another one.            *)
SetStatus(v, p) ==
  \E status \in {"cancelled", "completed"} :
    /\ v.proposal[p] # "none"
    /\ proposal' = [proposal EXCEPT ![p] = IF v.proposal[p] = status THEN @ ELSE status]
    /\ UNCHANGED <<lines, profile, loose>>

Reopenable(v, p) == v.proposal[p] \notin {"none", "draft"}

(* A new draft with the lines of p.  References are unique, so only the    *)
(* newest version has a successor to come.                                 *)
Reopen(v, p) ==
  LET next == <<p[1], p[2] + 1>> IN
  /\ Reopenable(v, p)
  /\ next \in Proposals /\ proposal[next] = "none"
  /\ proposal' = [proposal EXCEPT ![next] = "draft"]
  /\ lines' = [lines EXCEPT ![next] = v.lines[p]]
  /\ UNCHANGED <<profile, loose>>

-----------------------------------------------------------------------------
(* The sale status of vehicles.                                            *)

(* _get_or_create_profile reads again a profile that was not there.        *)
Profile(v, x) ==
  IF v.profile[x].status # "none" THEN v.profile[x]
  ELSE IF profile[x].status # "none" THEN profile[x]
  ELSE [status |-> Default[x], lot |-> None]

(* The columns that differ from the loaded ones are written.               *)
Written(v, x, status, lot) ==
  LET row == IF profile[x].status = "none" THEN Profile(v, x) ELSE profile[x] IN
  [status |-> IF status # Profile(v, x).status THEN status ELSE row.status,
   lot |-> IF lot # Profile(v, x).lot THEN lot ELSE row.lot]

WriteProfiles(v, S, status, lot) ==
  /\ profile' = [x \in Vehicles |->
                   IF x \in S THEN Written(v, x, status, lot) ELSE profile[x]]
  /\ UNCHANGED <<proposal, lines>>

Outdated(v, S) == {x \in S : v.profile[x] # profile[x]}

(* One vehicle's sheet, or the bulk action over the selected ones.         *)
SetByHand(v) ==
  \E S \in SUBSET Vehicles, status \in HandStatuses :
    /\ S # {}
    /\ WriteProfiles(v, S, status, None)
    /\ loose' = (loose \ S) \cup Outdated(v, S)

(* Prices set in bulk, or a publication, leave a profile where there was   *)
(* none.                                                                   *)
MakeProfiles ==
  \E S \in SUBSET {x \in Vehicles : profile[x].status = "none"} :
    /\ profile' = [x \in Vehicles |->
                     IF x \in S THEN [status |-> Default[x], lot |-> None] ELSE profile[x]]
    /\ S # {}
    /\ UNCHANGED <<proposal, lines, loose>>

(* Mutant: a vehicle that is only reserved can be taken over.              *)
ConflictsIfSold(v, p) ==
  {x \in Included(v, p) : v.profile[x].status = "sold" /\ v.profile[x].lot # p[1]}

Conflicts(v, p) ==
  {x \in Included(v, p) : v.profile[x].status \in Held /\ v.profile[x].lot # p[1]}

(* Any version of the lot that is not cancelled, drafts included.          *)
VehicleStatus(v, p) ==
  \E status \in Held :
    LET S == Included(v, p) IN
    /\ v.proposal[p] \notin {"none", "cancelled"}
    /\ S # {}
    /\ Conflicts(v, p) = {}
    /\ WriteProfiles(v, S, status, p[1])
    /\ loose' = IF v.proposal[p] = "draft"
                THEN loose \cup {x \in S : profile[x].lot # p[1]} \cup Outdated(v, S)
                ELSE (loose \ S) \cup Outdated(v, S) \cup (S \ Included(Seen, p))

-----------------------------------------------------------------------------

Request(v) ==
  \/ CreateProposal
  \/ SetByHand(v) \/ MakeProfiles
  \/ \E p \in Proposals :
       \/ SaveLines(v, p) \/ RemoveLine(v, p) \/ AddVehicles(v, p)
       \/ Send(v, p) \/ SetStatus(v, p) \/ Reopen(v, p)
       \/ VehicleStatus(v, p)

Serve(v) == commits < MaxCommits /\ commits' = commits + 1 /\ Request(v)

Prompt == Serve(Seen) /\ UNCHANGED view

Overtaken(r) ==
  /\ view[r] # None
  /\ Serve(view[r])
  /\ view' = [view EXCEPT ![r] = None]

Next == Prompt \/ \E r \in Slow : Load(r) \/ Overtaken(r)

Spec == Init /\ [][Next]_vars

-----------------------------------------------------------------------------
(* Properties.                                                             *)

Profiles == [status : SaleStatus \cup {"none"}, lot : Lots \cup {None}]

Rows == [proposal : [Proposals -> ProposalStatus], lines : [Proposals -> [Vehicles -> Line]],
         profile : [Vehicles -> Profiles]]

(* Every column, and every column that a request loaded, has its type.     *)
TypeOK ==
  /\ Seen \in Rows
  /\ view \in [Slow -> Rows \cup {None}]
  /\ commits \in Nat /\ loose \subseteq Vehicles

Frozen == {"sent", "cancelled", "completed"}

(* A vehicle that the list shows for a lot is reserved or sold, and stands *)
(* on a version of that lot that can no longer be edited: through sending, *)
(* reopening, editing the new draft, cancelling and changes by hand of     *)
(* several vehicles at once (vehicle_sale_proposal_vehicle_status).  Not   *)
(* so when the lot was reserved from a draft, whose line may be removed    *)
(* afterwards, or when requests overtook each other on the vehicle.        *)
HeldIsListed ==
  \A x \in Vehicles \ loose : profile[x].lot # None =>
    /\ profile[x].status \in Held
    /\ \E p \in Proposals :
         p[1] = profile[x].lot /\ proposal[p] \in Frozen /\ lines[p][x] = "included"

OvertakenOn(x) ==
  \E r \in Slow :
    view[r] # None /\ view'[r] = None /\ view[r].profile[x] # profile[x]

(* No lot takes over a vehicle that another lot, or a user, holds: only a  *)
(* request that loaded the vehicle before it was held does                 *)
(* (vehicle_sale_proposal_vehicle_status, lot_conflict).                   *)
NoLotTakesAnothers ==
  [][\A x \in Vehicles :
       profile[x].status \in Held /\ profile'[x].lot \notin {None, profile[x].lot} =>
         OvertakenOn(x)]_vars

(* The versions of a lot follow each other, and all but the newest have    *)
(* left their draft, whichever requests reopen them at the same time       *)
(* (vehicle_sale_proposal_reopen).                                         *)
OneDraftPerLot ==
  \A l \in Lots : \A n \in 1 .. MaxVersion :
    n > 1 /\ proposal[<<l, n>>] # "none" => proposal[<<l, n - 1>>] \in Frozen

=============================================================================
