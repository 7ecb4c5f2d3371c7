------------------------- MODULE VehicleSalesProofs -------------------------
(***************************************************************************)
(* Proofs about VehicleSales, for any number of overlapping requests,      *)
(* vehicles, lots and versions.                                            *)
(***************************************************************************)
EXTENDS VehicleSales, TLAPS

(* What a request loaded of a proposal stays true of it in this sense: it  *)
(* exists, and it does not become a draft again.                           *)
LoadedStands(v) ==
  \A p \in Proposals :
    /\ v.proposal[p] # "none" => proposal[p] # "none"
    /\ v.proposal[p] \in Frozen => proposal[p] \in Frozen

ViewsStand == \A r \in Slow : view[r] # None => LoadedStands(view[r])

IndInv == TypeOK /\ ViewsStand /\ OneDraftPerLot /\ HeldIsListed

(* A view that a request may decide by.                                    *)
Usable(v) == v \in Rows /\ LoadedStands(v)

-----------------------------------------------------------------------------

LEMMA InitIndInv == Init => IndInv
  <1> SUFFICES ASSUME Init PROVE IndInv
    OBVIOUS
  <1>1. TypeOK
    BY DEF Init, TypeOK, Seen, Rows, NoLines, ProposalStatus, Line, Profiles
  <1>2. ViewsStand
    BY DEF Init, ViewsStand
  <1>3. OneDraftPerLot
    BY DEF Init, OneDraftPerLot, Proposals
  <1>4. HeldIsListed
    BY DEF Init, HeldIsListed
  <1> QED
    BY <1>1, <1>2, <1>3, <1>4 DEF IndInv

(* The rows that a request changes keep their types.                       *)
LEMMA LinesTyped ==
  ASSUME IndInv, NEW v, Usable(v), NEW p \in Proposals, NEW S \in SUBSET Vehicles,
         NEW F \in [Vehicles -> Line], WriteLines(v, p, S, F)
  PROVE  lines' \in [Proposals -> [Vehicles -> Line]] /\ loose' \subseteq Vehicles
  BY DEF WriteLines, IndInv, TypeOK, Seen, Rows

LEMMA WrittenTyped ==
  ASSUME IndInv, NEW v, Usable(v), NEW x \in Vehicles, NEW status \in SaleStatus,
         NEW lot \in Lots \cup {None}
  PROVE  /\ Written(v, x, status, lot) \in Profiles
         /\ Profile(v, x) \in Profiles
  <1>1. profile[x] \in Profiles /\ v.profile[x] \in Profiles
    BY DEF IndInv, TypeOK, Seen, Rows, Usable
  <1>2. Default[x] \in SaleStatus
    BY SalesAssumption DEF SaleStatus
  <1>3. Profile(v, x) \in Profiles
    BY <1>1, <1>2 DEF Profile, Profiles
  <1> QED
    BY <1>1, <1>3 DEF Written, Profiles

(* Every request keeps the types of the rows.                              *)
LEMMA RequestTyped ==
  ASSUME IndInv, NEW v, Usable(v), Request(v)
  PROVE  Seen' \in Rows /\ loose' \subseteq Vehicles
  <1>0. /\ proposal \in [Proposals -> ProposalStatus]
        /\ lines \in [Proposals -> [Vehicles -> Line]]
        /\ profile \in [Vehicles -> Profiles] /\ loose \subseteq Vehicles
        /\ v \in Rows
    BY DEF IndInv, TypeOK, Seen, Rows, Usable
  <1>1. CASE CreateProposal
    <2>1. PICK l \in Lots, S \in SUBSET Vehicles :
            /\ proposal' = [proposal EXCEPT ![<<l, 1>>] = "draft"]
            /\ lines' = [lines EXCEPT ![<<l, 1>>] =
                           [x \in Vehicles |-> IF x \in S THEN "included" ELSE "absent"]]
      BY <1>1 DEF CreateProposal
    <2>2. [x \in Vehicles |-> IF x \in S THEN "included" ELSE "absent"] \in [Vehicles -> Line]
      BY DEF Line
    <2>3. lines' \in [Proposals -> [Vehicles -> Line]]
      BY <1>0, <2>1, <2>2
    <2>4. proposal' \in [Proposals -> ProposalStatus]
      BY <1>0, <2>1 DEF ProposalStatus
    <2> QED
      BY <1>0, <1>1, <2>3, <2>4 DEF CreateProposal, Seen, Rows
  <1>2. CASE SetByHand(v)
    <2>1. PICK S \in SUBSET Vehicles, status \in HandStatuses :
            /\ WriteProfiles(v, S, status, None)
            /\ loose' = (loose \ S) \cup Outdated(v, S)
      BY <1>2 DEF SetByHand
    <2>2. \A x \in Vehicles : Written(v, x, status, None) \in Profiles
      BY WrittenTyped, SalesAssumption
    <2> QED
      BY <1>0, <2>1, <2>2 DEF WriteProfiles, Outdated, Seen, Rows
  <1>3. ASSUME NEW p \in Proposals, SaveLines(v, p) PROVE Seen' \in Rows /\ loose' \subseteq Vehicles
    <2>1. PICK I \in SUBSET Listed(v, p) :
            WriteLines(v, p,
              {x \in Listed(v, p) : [y \in Vehicles |-> IF y \in I THEN "included" ELSE "excluded"][x]
                                      # v.lines[p][x]},
              [y \in Vehicles |-> IF y \in I THEN "included" ELSE "excluded"])
      BY <1>3 DEF SaveLines
    <2>2. lines' \in [Proposals -> [Vehicles -> Line]] /\ loose' \subseteq Vehicles
      <3> DEFINE new == [y \in Vehicles |-> IF y \in I THEN "included" ELSE "excluded"]
                 C == {x \in Listed(v, p) : new[x] # v.lines[p][x]}
      <3>1. new \in [Vehicles -> Line] /\ C \in SUBSET Vehicles
        BY DEF Line, Listed
      <3>2. WriteLines(v, p, C, new)
        BY <2>1
      <3> HIDE DEF new, C
      <3> QED
        BY <1>3, <3>1, <3>2, LinesTyped
    <2> QED
      BY <1>0, <2>1, <2>2 DEF WriteLines, Seen, Rows
  <1>4. ASSUME NEW p \in Proposals, RemoveLine(v, p) PROVE Seen' \in Rows /\ loose' \subseteq Vehicles
    <2>1. PICK x \in Vehicles : WriteLines(v, p, {x}, NoLines)
      BY <1>4 DEF RemoveLine, Listed
    <2>2. NoLines \in [Vehicles -> Line] /\ {x} \in SUBSET Vehicles
      BY DEF NoLines, Line
    <2>3. lines' \in [Proposals -> [Vehicles -> Line]] /\ loose' \subseteq Vehicles
      BY <1>4, <2>1, <2>2, LinesTyped
    <2> QED
      BY <1>0, <2>1, <2>3 DEF WriteLines, Seen, Rows
  <1>5. ASSUME NEW p \in Proposals, AddVehicles(v, p) PROVE Seen' \in Rows /\ loose' \subseteq Vehicles
    <2>1. PICK S \in SUBSET Vehicles : WriteLines(v, p, S, [x \in Vehicles |-> "included"])
      BY <1>5 DEF AddVehicles
    <2>2. [x \in Vehicles |-> "included"] \in [Vehicles -> Line]
      BY DEF Line
    <2>3. lines' \in [Proposals -> [Vehicles -> Line]] /\ loose' \subseteq Vehicles
      BY <1>5, <2>1, <2>2, LinesTyped
    <2> QED
      BY <1>0, <2>1, <2>3 DEF WriteLines, Seen, Rows
  <1>6. ASSUME NEW p \in Proposals, Send(v, p) \/ SetStatus(v, p) \/ Reopen(v, p)
        PROVE  Seen' \in Rows /\ loose' \subseteq Vehicles
    <2>1. proposal' \in [Proposals -> ProposalStatus]
      BY <1>0, <1>6 DEF Send, SetStatus, Reopen, ProposalStatus
    <2>2. lines' \in [Proposals -> [Vehicles -> Line]]
      BY <1>0, <1>6 DEF Send, SetStatus, Reopen, Rows
    <2>3. UNCHANGED <<profile, loose>>
      BY <1>6 DEF Send, SetStatus, Reopen
    <2> QED
      BY <1>0, <2>1, <2>2, <2>3 DEF Seen, Rows
  <1>7. ASSUME NEW p \in Proposals, VehicleStatus(v, p) PROVE Seen' \in Rows /\ loose' \subseteq Vehicles
    <2>1. PICK status \in Held : WriteProfiles(v, Included(v, p), status, p[1])
      BY <1>7 DEF VehicleStatus
    <2>2. p[1] \in Lots /\ status \in SaleStatus
      BY <2>1 DEF Proposals, Held, SaleStatus
    <2>3. \A x \in Vehicles : Written(v, x, status, p[1]) \in Profiles
      BY <2>2, WrittenTyped
    <2>4. loose' \subseteq Vehicles
      BY <1>0, <1>7 DEF VehicleStatus, Included, Outdated
    <2> QED
      BY <1>0, <2>1, <2>3, <2>4 DEF WriteProfiles, Seen, Rows
  <1>8. CASE MakeProfiles
    <2>1. PICK S \in SUBSET Vehicles :
            profile' = [x \in Vehicles |->
                          IF x \in S THEN [status |-> Default[x], lot |-> None] ELSE profile[x]]
      BY <1>8 DEF MakeProfiles
    <2>2. \A x \in Vehicles : [status |-> Default[x], lot |-> None] \in Profiles
      BY SalesAssumption DEF Profiles, SaleStatus
    <2> QED
      BY <1>0, <1>8, <2>1, <2>2 DEF MakeProfiles, Seen, Rows
  <1> QED
    BY <1>1, <1>2, <1>3, <1>4, <1>5, <1>6, <1>7, <1>8 DEF Request

(* What is frozen stays frozen, and what exists stays.                     *)
LEMMA NothingReturns ==
  ASSUME IndInv, NEW v, Usable(v), Request(v), NEW q \in Proposals
  PROVE  /\ proposal[q] # "none" => proposal'[q] # "none"
         /\ proposal[q] \in Frozen => proposal'[q] \in Frozen
  <1>0. proposal \in [Proposals -> ProposalStatus]
    BY DEF IndInv, TypeOK, Seen, Rows
  <1>1. ASSUME NEW p \in Proposals, NEW status,
               status = "draft" => proposal[p] = "none", status \in Frozen \cup {"draft"},
               proposal' = [proposal EXCEPT ![p] = status]
        PROVE  /\ proposal[q] # "none" => proposal'[q] # "none"
               /\ proposal[q] \in Frozen => proposal'[q] \in Frozen
    BY <1>0, <1>1 DEF Frozen
  <1>2. CASE CreateProposal
    <2>1. PICK l \in Lots : /\ 1 <= MaxVersion /\ proposal[<<l, 1>>] = "none"
                            /\ proposal' = [proposal EXCEPT ![<<l, 1>>] = "draft"]
      BY <1>2 DEF CreateProposal
    <2>2. <<l, 1>> \in Proposals
      BY <2>1, SalesAssumption DEF Proposals
    <2> QED
      BY <2>1, <2>2, <1>1
  <1>3. ASSUME NEW p \in Proposals, Send(v, p) \/ SetStatus(v, p)
        PROVE  /\ proposal[q] # "none" => proposal'[q] # "none"
               /\ proposal[q] \in Frozen => proposal'[q] \in Frozen
    BY <1>0, <1>3 DEF Send, SetStatus, Frozen
  <1>4. ASSUME NEW p \in Proposals, Reopen(v, p)
        PROVE  /\ proposal[q] # "none" => proposal'[q] # "none"
               /\ proposal[q] \in Frozen => proposal'[q] \in Frozen
    BY <1>1, <1>4 DEF Reopen
  <1>5. ASSUME NEW p \in Proposals,
               \/ SaveLines(v, p) \/ RemoveLine(v, p) \/ AddVehicles(v, p)
               \/ VehicleStatus(v, p)
        PROVE  proposal' = proposal
    BY <1>5 DEF SaveLines, RemoveLine, AddVehicles, VehicleStatus, WriteLines, WriteProfiles
  <1>6. CASE SetByHand(v) \/ MakeProfiles
    BY <1>6 DEF SetByHand, MakeProfiles, WriteProfiles
  <1> QED
    BY <1>2, <1>3, <1>4, <1>5, <1>6 DEF Request

(* A version that comes into being follows one that left its draft.        *)
LEMMA OneDraftKept ==
  ASSUME IndInv, NEW v, Usable(v), Request(v)
  PROVE  OneDraftPerLot'
  <1>0. proposal \in [Proposals -> ProposalStatus]
    BY DEF IndInv, TypeOK, Seen, Rows
  <1> SUFFICES ASSUME NEW l \in Lots, NEW n \in 1 .. MaxVersion, n > 1,
                      proposal'[<<l, n>>] # "none"
               PROVE  proposal'[<<l, n - 1>>] \in Frozen
    BY DEF OneDraftPerLot
  <1>1. /\ <<l, n>> \in Proposals /\ <<l, n - 1>> \in Proposals
        /\ n - 1 \in 1 .. MaxVersion /\ (n - 1) + 1 = n
    BY SalesAssumption DEF Proposals
  <1>2. CASE proposal[<<l, n>>] # "none"
    <2>1. proposal[<<l, n - 1>>] \in Frozen
      BY <1>2 DEF IndInv, OneDraftPerLot
    <2> QED
      BY <1>1, <2>1, NothingReturns
  <1>3. CASE proposal[<<l, n>>] = "none"
    <2>1. PICK p \in Proposals : Reopen(v, p) /\ <<l, n>> = <<p[1], p[2] + 1>>
      <3>1. ~CreateProposal
        <4> SUFFICES ASSUME NEW k \in Lots, proposal' = [proposal EXCEPT ![<<k, 1>>] = "draft"]
                     PROVE  FALSE
          BY DEF CreateProposal
        <4>1. <<k, 1>> # <<l, n>>
          OBVIOUS
        <4> QED
          BY <1>0, <1>1, <1>3, <4>1
      <3>2. ~SetByHand(v) /\ ~MakeProfiles
        BY <1>3 DEF SetByHand, MakeProfiles, WriteProfiles
      <3>3. ASSUME NEW p \in Proposals,
                   \/ SaveLines(v, p) \/ RemoveLine(v, p) \/ AddVehicles(v, p)
                   \/ VehicleStatus(v, p)
            PROVE  FALSE
        BY <1>3, <3>3
           DEF SaveLines, RemoveLine, AddVehicles, VehicleStatus, WriteLines, WriteProfiles
      <3>4. ASSUME NEW p \in Proposals, Send(v, p) \/ SetStatus(v, p)
            PROVE  FALSE
        <4>1. v.proposal[p] # "none"
          BY <3>4 DEF Send, SetStatus, Editable
        <4>2. proposal[p] # "none"
          BY <4>1 DEF Usable, LoadedStands
        <4> QED
          BY <1>0, <1>1, <1>3, <3>4, <4>2 DEF Send, SetStatus
      <3>5. PICK p \in Proposals : Reopen(v, p)
        BY <3>1, <3>2, <3>3, <3>4 DEF Request
      <3>6. <<l, n>> = <<p[1], p[2] + 1>>
        BY <1>0, <1>1, <1>3, <3>5 DEF Reopen
      <3> QED
        BY <3>5, <3>6
    <2>2. proposal[p] \in Frozen
      <3>1. v.proposal[p] \in Frozen
        BY <2>1 DEF Reopen, Reopenable, Usable, Rows, ProposalStatus, Frozen
      <3> QED
        BY <3>1 DEF Usable, LoadedStands
    <2>3. p = <<l, n - 1>>
      BY <2>1, <1>1 DEF Proposals
    <2> QED
      BY <2>2, <2>3, NothingReturns
  <1> QED
    BY <1>2, <1>3

(* Lines change only where a request that saw a draft writes them; those   *)
(* of a version that is none any more make their vehicles loose.           *)
LEMMA LinesHold ==
  ASSUME IndInv, NEW v, Usable(v), NEW p \in Proposals, NEW S, NEW F,
         Editable(v, p), WriteLines(v, p, S, F),
         NEW q \in Proposals, proposal[q] \in Frozen,
         NEW x \in Vehicles, x \notin loose'
  PROVE  lines'[q][x] = lines[q][x] /\ x \notin loose
  <1>0. lines \in [Proposals -> [Vehicles -> Line]]
    BY DEF IndInv, TypeOK, Seen, Rows
  <1>1. x \notin loose
    BY DEF WriteLines
  <1>2. CASE p = q
    <2>1. v.proposal[p] # proposal[p]
      BY <1>2 DEF Editable, Frozen
    <2>2. x \notin S
      BY <2>1 DEF WriteLines
    <2> QED
      BY <1>0, <1>1, <1>2, <2>2 DEF WriteLines
  <1>3. CASE p # q
    BY <1>0, <1>1, <1>3 DEF WriteLines
  <1> QED
    BY <1>2, <1>3

(* What a request writes into the profile of a vehicle that it loaded as   *)
(* it is.                                                                  *)
LEMMA WrittenCurrent ==
  ASSUME NEW v, NEW x \in Vehicles, NEW status, NEW lot, v.profile[x] = profile[x],
         profile[x] \in Profiles
  PROVE  /\ Written(v, x, status, lot).status = status
         /\ Written(v, x, status, lot).lot = lot
  BY DEF Written, Profile, Profiles

LEMMA HeldIsListedKept ==
  ASSUME IndInv, NEW v, Usable(v), Request(v)
  PROVE  HeldIsListed'
  <1>0. /\ proposal \in [Proposals -> ProposalStatus]
        /\ lines \in [Proposals -> [Vehicles -> Line]]
        /\ profile \in [Vehicles -> Profiles] /\ loose \subseteq Vehicles
    BY DEF IndInv, TypeOK, Seen, Rows
  <1> SUFFICES ASSUME NEW x \in Vehicles, x \notin loose', profile'[x].lot # None
               PROVE  /\ profile'[x].status \in Held
                      /\ \E p \in Proposals :
                           /\ p[1] = profile'[x].lot /\ proposal'[p] \in Frozen
                           /\ lines'[p][x] = "included"
    BY DEF HeldIsListed
  (* It is enough that x keeps its row, and what stood listed its line.    *)
  <1>1. ASSUME profile'[x] = profile[x], x \notin loose,
               \A q \in Proposals : proposal[q] \in Frozen => lines'[q][x] = lines[q][x]
        PROVE  /\ profile'[x].status \in Held
               /\ \E p \in Proposals :
                    /\ p[1] = profile'[x].lot /\ proposal'[p] \in Frozen
                    /\ lines'[p][x] = "included"
    <2>1. /\ profile[x].status \in Held
          /\ \E p \in Proposals :
               p[1] = profile[x].lot /\ proposal[p] \in Frozen /\ lines[p][x] = "included"
      BY <1>1 DEF IndInv, HeldIsListed
    <2> QED
      BY <1>1, <2>1, NothingReturns
  <1>2. CASE CreateProposal
    <2>1. PICK l \in Lots, S \in SUBSET Vehicles :
            /\ proposal[<<l, 1>>] = "none"
            /\ lines' = [lines EXCEPT ![<<l, 1>>] =
                           [y \in Vehicles |-> IF y \in S THEN "included" ELSE "absent"]]
      BY <1>2 DEF CreateProposal
    <2>2. \A q \in Proposals : proposal[q] \in Frozen => lines'[q][x] = lines[q][x]
      BY <1>0, <2>1 DEF Frozen
    <2> QED
      BY <1>1, <1>2, <2>2 DEF CreateProposal
  <1>3. CASE SetByHand(v)
    <2>1. PICK S \in SUBSET Vehicles, status \in HandStatuses :
            /\ WriteProfiles(v, S, status, None)
            /\ loose' = (loose \ S) \cup Outdated(v, S)
      BY <1>3 DEF SetByHand
    <2>2. x \notin S
      <3> SUFFICES ASSUME x \in S PROVE FALSE
        OBVIOUS
      <3>1. v.profile[x] = profile[x]
        BY <2>1 DEF Outdated
      <3>2. profile'[x] = Written(v, x, status, None)
        BY <2>1 DEF WriteProfiles
      <3> QED
        BY <1>0, <3>1, <3>2, WrittenCurrent
    <2>3. profile'[x] = profile[x] /\ x \notin loose /\ lines' = lines
      BY <2>1, <2>2 DEF WriteProfiles
    <2> QED
      BY <1>1, <2>3
  <1>4. ASSUME NEW p \in Proposals, SaveLines(v, p) \/ RemoveLine(v, p) \/ AddVehicles(v, p)
        PROVE  /\ profile'[x].status \in Held
               /\ \E q \in Proposals :
                    /\ q[1] = profile'[x].lot /\ proposal'[q] \in Frozen
                    /\ lines'[q][x] = "included"
    <2>1. PICK S, F : Editable(v, p) /\ WriteLines(v, p, S, F)
      <3>1. CASE SaveLines(v, p)
        BY <3>1 DEF SaveLines
      <3>2. CASE RemoveLine(v, p)
        BY <3>2 DEF RemoveLine
      <3>3. CASE AddVehicles(v, p)
        BY <3>3 DEF AddVehicles
      <3> QED
        BY <1>4, <3>1, <3>2, <3>3
    <2>2. profile' = profile /\ x \notin loose
      BY <2>1 DEF WriteLines
    <2>3. \A q \in Proposals : proposal[q] \in Frozen => lines'[q][x] = lines[q][x]
      BY <2>1, LinesHold
    <2> QED
      BY <1>1, <2>2, <2>3
  <1>5. ASSUME NEW p \in Proposals, Send(v, p) \/ SetStatus(v, p)
        PROVE  UNCHANGED <<lines, profile, loose>>
    BY <1>5 DEF Send, SetStatus
  <1>6. ASSUME NEW p \in Proposals, Reopen(v, p)
        PROVE  /\ \A q \in Proposals : proposal[q] \in Frozen => lines'[q][x] = lines[q][x]
               /\ UNCHANGED <<profile, loose>>
    BY <1>0, <1>6 DEF Reopen, Frozen
  <1>7. ASSUME NEW p \in Proposals, VehicleStatus(v, p)
        PROVE  /\ profile'[x].status \in Held
               /\ \E q \in Proposals :
                    /\ q[1] = profile'[x].lot /\ proposal'[q] \in Frozen
                    /\ lines'[q][x] = "included"
    <2>1. PICK status \in Held : WriteProfiles(v, Included(v, p), status, p[1])
      BY <1>7 DEF VehicleStatus
    <2>2. UNCHANGED <<proposal, lines>>
      BY <2>1 DEF WriteProfiles
    <2>3. CASE x \notin Included(v, p)
      <3>1. profile'[x] = profile[x]
        BY <2>1, <2>3 DEF WriteProfiles
      <3>2. x \notin loose
        BY <1>7, <2>3 DEF VehicleStatus
      <3> QED
        BY <1>1, <2>2, <3>1, <3>2
    <2>4. CASE x \in Included(v, p)
      <3>1. v.profile[x] = profile[x]
        BY <1>7, <2>4 DEF VehicleStatus, Outdated
      <3>2. profile'[x] = Written(v, x, status, p[1])
        BY <2>1, <2>4 DEF WriteProfiles
      <3>3. profile'[x].status = status /\ profile'[x].lot = p[1]
        BY <1>0, <3>1, <3>2, WrittenCurrent
      <3>4. CASE v.proposal[p] = "draft"
        <4>1. x \notin loose /\ profile[x].lot = p[1]
          BY <1>7, <2>4, <3>4 DEF VehicleStatus
        <4>2. p[1] # None
          BY SalesAssumption DEF Proposals
        <4>3. \E q \in Proposals :
                 q[1] = p[1] /\ proposal[q] \in Frozen /\ lines[q][x] = "included"
          BY <4>1, <4>2 DEF IndInv, HeldIsListed
        <4> QED
          BY <2>1, <2>2, <3>3, <4>3
      <3>5. CASE v.proposal[p] # "draft"
        <4>1. x \in Included(Seen, p)
          BY <1>7, <2>4, <3>5 DEF VehicleStatus
        <4>2. lines[p][x] = "included"
          BY <4>1 DEF Included, Seen
        <4>3. v.proposal[p] \in Frozen
          BY <1>7, <3>5 DEF VehicleStatus, Usable, Rows, ProposalStatus, Frozen
        <4>4. proposal[p] \in Frozen
          BY <4>3 DEF Usable, LoadedStands
        <4> QED
          BY <2>1, <2>2, <3>3, <4>2, <4>4
      <3> QED
        BY <3>4, <3>5
    <2> QED
      BY <2>3, <2>4
  <1>8. CASE MakeProfiles
    <2>1. profile'[x] = profile[x] \/ profile'[x] = [status |-> Default[x], lot |-> None]
      BY <1>8 DEF MakeProfiles
    <2>2. profile'[x] = profile[x]
      BY <2>1
    <2> QED
      BY <1>1, <1>8, <2>2 DEF MakeProfiles
  <1> QED
    BY <1>1, <1>2, <1>3, <1>4, <1>5, <1>6, <1>7, <1>8 DEF Request

(* One request, prompt or overtaken, keeps the inductive invariant.        *)
LEMMA ServeKeeps ==
  ASSUME IndInv, NEW v, Usable(v), Serve(v),
         \A r \in Slow : view'[r] # None => view'[r] = view[r],
         view' \in [Slow -> Rows \cup {None}]
  PROVE  IndInv'
  <1>0. Request(v)
    BY DEF Serve
  <1>1. TypeOK'
    <2>1. commits' \in Nat
      BY DEF Serve, IndInv, TypeOK
    <2>2. Seen' \in Rows /\ loose' \subseteq Vehicles
      BY <1>0, RequestTyped
    <2> QED
      BY <2>1, <2>2 DEF TypeOK, Seen
  <1>2. ViewsStand'
    <2> SUFFICES ASSUME NEW r \in Slow, view'[r] # None, NEW p \in Proposals
                 PROVE  /\ view'[r].proposal[p] # "none" => proposal'[p] # "none"
                        /\ view'[r].proposal[p] \in Frozen => proposal'[p] \in Frozen
      BY DEF ViewsStand, LoadedStands
    <2>1. /\ view[r].proposal[p] # "none" => proposal[p] # "none"
          /\ view[r].proposal[p] \in Frozen => proposal[p] \in Frozen
      BY DEF IndInv, ViewsStand, LoadedStands
    <2> QED
      BY <1>0, <2>1, NothingReturns
  <1> QED
    BY <1>0, <1>1, <1>2, OneDraftKept, HeldIsListedKept DEF IndInv

LEMMA SeenUsable == IndInv => Usable(Seen)
  BY DEF IndInv, TypeOK, Usable, LoadedStands, Seen

LEMMA ViewUsable ==
  ASSUME IndInv, NEW r \in Slow, view[r] # None
  PROVE  Usable(view[r])
  BY DEF IndInv, TypeOK, ViewsStand, Usable

LEMMA NextKeeps == IndInv /\ [Next]_vars => IndInv'
  <1> SUFFICES ASSUME IndInv, [Next]_vars PROVE IndInv'
    OBVIOUS
  <1>0. view \in [Slow -> Rows \cup {None}]
    BY DEF IndInv, TypeOK
  <1>1. CASE Prompt
    BY <1>0, <1>1, SeenUsable, ServeKeeps DEF Prompt
  <1>2. ASSUME NEW r \in Slow, Overtaken(r) PROVE IndInv'
    <2>1. Usable(view[r]) /\ Serve(view[r])
      BY <1>2, ViewUsable DEF Overtaken
    <2>2. /\ \A q \in Slow : view'[q] # None => view'[q] = view[q]
          /\ view' \in [Slow -> Rows \cup {None}]
      BY <1>0, <1>2 DEF Overtaken
    <2> QED
      BY <2>1, <2>2, ServeKeeps
  <1>3. ASSUME NEW r \in Slow, Load(r) PROVE IndInv'
    <2>1. UNCHANGED <<proposal, lines, profile, commits, loose>> /\ Seen' = Seen
      BY <1>3 DEF Load, Seen
    <2>2. \A q \in Slow : view'[q] = view[q] \/ view'[q] = Seen
      BY <1>0, <1>3 DEF Load
    <2>3. TypeOK'
      <3>1. view' \in [Slow -> Rows \cup {None}]
        BY <1>0, <1>3 DEF Load, IndInv, TypeOK
      <3> QED
        BY <2>1, <3>1 DEF IndInv, TypeOK
    <2>4. ViewsStand'
      <3>1. LoadedStands(Seen)
        BY DEF LoadedStands, Seen
      <3>2. \A q \in Slow : view'[q] # None => LoadedStands(view'[q])
        BY <2>2, <3>1 DEF IndInv, ViewsStand
      <3> QED
        BY <2>1, <3>2 DEF ViewsStand, LoadedStands
    <2>5. OneDraftPerLot' /\ HeldIsListed'
      BY <2>1 DEF IndInv, OneDraftPerLot, HeldIsListed
    <2> QED
      BY <2>3, <2>4, <2>5 DEF IndInv
  <1>4. CASE UNCHANGED vars
    <2>1. Seen' = Seen
      BY <1>4 DEF vars, Seen
    <2> QED
      BY <1>4, <2>1
         DEF vars, IndInv, TypeOK, ViewsStand, LoadedStands, OneDraftPerLot, HeldIsListed
  <1> QED
    BY <1>1, <1>2, <1>3, <1>4 DEF Next

-----------------------------------------------------------------------------
(* Theorems.                                                               *)

(* The inductive invariant: types, that loaded rows do not come back, the  *)
(* chain of versions and the two properties below.                         *)
THEOREM SalesInductive == Spec => []IndInv
  BY InitIndInv, NextKeeps, PTL DEF Spec

(* Every column of the sale rows keeps its type.                           *)
THEOREM SalesTypes == Spec => []TypeOK
  <1>1. IndInv => TypeOK
    BY DEF IndInv
  <1> QED
    BY <1>1, SalesInductive, PTL

(* However many requests reopen a lot, its versions form a chain of which  *)
(* only the newest can be a draft (vehicle_sale_proposal_reopen).          *)
THEOREM SingleDraft == Spec => []OneDraftPerLot
  <1>1. IndInv => OneDraftPerLot
    BY DEF IndInv
  <1> QED
    BY <1>1, SalesInductive, PTL

(* A vehicle that a lot holds stands on a version of the lot that can no   *)
(* longer be edited (vehicle_sale_proposal_vehicle_status).                *)
THEOREM LotsListWhatTheyHold == Spec => []HeldIsListed
  <1>1. IndInv => HeldIsListed
    BY DEF IndInv
  <1> QED
    BY <1>1, SalesInductive, PTL

(* The profile that a request which loaded x as it is writes for a lot:    *)
(* the lot is that of the profile already.                                 *)
LEMMA HolderStays ==
  ASSUME IndInv, NEW v, Request(v), NEW x \in Vehicles, v.profile[x] = profile[x],
         profile[x].status \in Held
  PROVE  profile'[x].lot \in {None, profile[x].lot}
  <1>0. profile[x] \in Profiles
    BY DEF IndInv, TypeOK, Seen, Rows
  <1>1. CASE SetByHand(v)
    <2>1. PICK S \in SUBSET Vehicles, status \in HandStatuses : WriteProfiles(v, S, status, None)
      BY <1>1 DEF SetByHand
    <2>2. profile'[x] = IF x \in S THEN Written(v, x, status, None) ELSE profile[x]
      BY <2>1 DEF WriteProfiles
    <2> QED
      BY <1>0, <2>2, WrittenCurrent
  <1>2. ASSUME NEW p \in Proposals, VehicleStatus(v, p)
        PROVE  profile'[x].lot \in {None, profile[x].lot}
    <2>1. PICK status \in Held : WriteProfiles(v, Included(v, p), status, p[1])
      BY <1>2 DEF VehicleStatus
    <2>2. x \in Included(v, p) => profile[x].lot = p[1]
      BY <1>2 DEF VehicleStatus, Conflicts
    <2>3. profile'[x] = IF x \in Included(v, p) THEN Written(v, x, status, p[1]) ELSE profile[x]
      BY <2>1 DEF WriteProfiles
    <2> QED
      BY <1>0, <2>2, <2>3, WrittenCurrent
  <1>3. ASSUME NEW p \in Proposals,
               \/ SaveLines(v, p) \/ RemoveLine(v, p) \/ AddVehicles(v, p)
               \/ Send(v, p) \/ SetStatus(v, p) \/ Reopen(v, p)
        PROVE  profile' = profile
    BY <1>3 DEF SaveLines, RemoveLine, AddVehicles, Send, SetStatus, Reopen, WriteLines
  <1>4. CASE CreateProposal
    BY <1>4 DEF CreateProposal
  <1>5. ASSUME MakeProfiles PROVE profile'[x].lot \in {None, profile[x].lot}
    <2>1. profile'[x] = profile[x] \/ profile'[x] = [status |-> Default[x], lot |-> None]
      BY <1>5 DEF MakeProfiles
    <2> QED
      BY <2>1
  <1> QED
    BY <1>1, <1>2, <1>3, <1>4, <1>5 DEF Request

(* No lot takes over a vehicle that another lot or a user holds, unless    *)
(* its request loaded the vehicle before (lot_conflict of                  *)
(* vehicle_sale_proposal_vehicle_status).                                  *)
THEOREM HoldersStay == Spec => NoLotTakesAnothers
  <1> DEFINE Kept == \A x \in Vehicles :
       profile[x].status \in Held /\ profile'[x].lot \notin {None, profile[x].lot} =>
         OvertakenOn(x)
  <1>1. IndInv /\ [Next]_vars => [Kept]_vars
    <2> SUFFICES ASSUME IndInv, Next, NEW x \in Vehicles, profile[x].status \in Held,
                        profile'[x].lot \notin {None, profile[x].lot}
                 PROVE  OvertakenOn(x)
      OBVIOUS
    <2>1. CASE Prompt
      <3>1. Request(Seen) /\ Seen.profile[x] = profile[x]
        BY <2>1 DEF Prompt, Serve, Seen
      <3> QED
        BY <3>1, HolderStays
    <2>2. ASSUME NEW r \in Slow, Overtaken(r) PROVE OvertakenOn(x)
      <3>1. Request(view[r]) /\ view[r] # None /\ view'[r] = None
        BY <2>2 DEF Overtaken, Serve, IndInv, TypeOK
      <3>2. view[r].profile[x] # profile[x]
        BY <3>1, HolderStays
      <3> QED
        BY <3>1, <3>2 DEF OvertakenOn
    <2>3. ASSUME NEW r \in Slow, Load(r) PROVE FALSE
      BY <2>3 DEF Load
    <2> QED
      BY <2>1, <2>2, <2>3 DEF Next
  <1> QED
    BY <1>1, SalesInductive, PTL DEF Spec, NoLotTakesAnothers

=============================================================================
