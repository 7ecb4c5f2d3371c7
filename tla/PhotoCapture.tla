---------------------------- MODULE PhotoCapture ----------------------------
(***************************************************************************)
(* Captures of required photographs (app/services/photo_capture.py,        *)
(* app/api/routes/photo_actions.py): photographs are stored in a capture,  *)
(* submitted, reviewed, and a rejected capture is repeated.  A task or a   *)
(* phase of a workshop process asks for its blockers before it goes on.    *)
(*                                                                         *)
(* A request loads its capture without a lock when it starts, and reads    *)
(* the photographs when it acts: an upload waits for the file in between.  *)
(* v.captures are the captures as the request loaded them.                 *)
(*                                                                         *)
(* Formats, categories, locations and permissions may refuse a request; a  *)
(* refused request changes nothing.                                        *)
(***************************************************************************)
EXTENDS Naturals, Sequences, FiniteSets

CONSTANTS
  Photos,       \* the content of photographs, as told apart by their hash
  Configs,      \* what captures ask for: min, max, review, required
  Places,       \* what captures are made for
  MaxCaptures   \* bound on the captures

ASSUME PhotoAssumption ==
  /\ MaxCaptures \in Nat
  /\ \A config \in Configs :
       /\ config.min \in Nat /\ config.max \in Nat
       /\ config.review \in BOOLEAN /\ config.required \in BOOLEAN

CaptureStatuses == {"pending", "captured", "submitted", "approved", "rejected"}
Changeable == {"pending", "captured", "rejected"}

VARIABLES
  captures,   \* place, config, status
  shots,      \* capture -> photograph -> its status, "none" or "removed"
  hasty       \* history: a request on photographs acted on a capture whose
              \* status was no longer the one it had loaded

photoVars == <<captures, shots, hasty>>

ActiveItems(s) == {p \in Photos : shots[s][p] \notin {"none", "removed"}}

-----------------------------------------------------------------------------
(* What a step that waits for photographs asks.                            *)

(* Mutant: the photographs are counted, the verdict is not awaited.        *)
ReadyUnreviewed(s) ==
  /\ Cardinality(ActiveItems(s)) >= captures[s].config.min
  /\ captures[s].status \in {"submitted", "approved"}

Ready(s) ==
  /\ Cardinality(ActiveItems(s)) >= captures[s].config.min
  /\ captures[s].config.review => captures[s].status = "approved"
  /\ captures[s].status \in {"submitted", "approved"}

Required(place) == {s \in DOMAIN captures : captures[s].config.required /\ captures[s].at = place}
Blockers(place) == {s \in Required(place) : ~Ready(s)}

-----------------------------------------------------------------------------
(* The requests.                                                           *)

Acts(v, s) ==
  /\ s \in DOMAIN v.captures
  /\ hasty' = (hasty \/ v.captures[s].status # captures[s].status)

(* A status is written when it differs from the one that was loaded.       *)
Becomes(v, s, status) ==
  captures' = IF v.captures[s].status = status THEN captures
              ELSE [captures EXCEPT ![s].status = status]

Opened(capture) ==
  /\ Len(captures) < MaxCaptures
  /\ captures' = Append(captures, capture)
  /\ shots' = Append(shots, [p \in Photos |-> "none"])

CreateSession(place, config) ==
  /\ Opened([at |-> place, config |-> config, status |-> "pending"])
  /\ UNCHANGED hasty

(* A photograph that was removed cannot be taken again: the unique key of  *)
(* capture and photograph counts it still.                                 *)
StorePhoto(v, s, p) ==
  /\ Acts(v, s)
  /\ v.captures[s].status \in Changeable
  /\ Cardinality(ActiveItems(s)) < captures[s].config.max
  /\ shots[s][p] = "none"
  /\ shots' = [shots EXCEPT ![s][p] = "captured"]
  /\ Becomes(v, s, "captured")

(* The removal is not flushed before what remains is counted (the sessions *)
(* of the database do not flush by themselves), so the removed photograph  *)
(* is counted too and the capture never becomes pending again.             *)
RemovePhoto(v, s, p) ==
  /\ Acts(v, s)
  /\ p \in ActiveItems(s)
  /\ shots' = [shots EXCEPT ![s][p] = "removed"]
  /\ UNCHANGED captures

Marked(s, status) ==
  shots' = [shots EXCEPT ![s] = [p \in Photos |-> IF p \in ActiveItems(s) THEN status ELSE @[p]]]

SubmitSession(v, s) ==
  /\ Acts(v, s)
  /\ v.captures[s].status \in Changeable
  /\ Cardinality(ActiveItems(s)) >= captures[s].config.min
  /\ Becomes(v, s, "submitted")
  /\ Marked(s, "submitted")

Reviewable(capture) == capture.status = "submitted"

ReviewSession(v, s) ==
  /\ Acts(v, s)
  /\ Reviewable(v.captures[s])
  /\ \E decision \in {"approved", "rejected"} :
       Becomes(v, s, decision) /\ Marked(s, decision)

(* The rejected capture stays as it is, and keeps blocking.                *)
RepeatSession(v, s) ==
  /\ Acts(v, s)
  /\ v.captures[s].status = "rejected"
  /\ Opened([captures[s] EXCEPT !.status = "pending"])

(* Requests on photographs.                                                *)
PhotoRequest(v) ==
  \E s \in DOMAIN captures :
    \/ \E p \in Photos : StorePhoto(v, s, p) \/ RemovePhoto(v, s, p)
    \/ SubmitSession(v, s) \/ ReviewSession(v, s) \/ RepeatSession(v, s)

-----------------------------------------------------------------------------
PhotoTypes ==
  /\ \A s \in DOMAIN captures :
       captures[s].status \in CaptureStatuses /\ captures[s].config \in Configs
  /\ DOMAIN shots = DOMAIN captures
  /\ \A s \in DOMAIN shots, p \in Photos :
       shots[s][p] \in CaptureStatuses \cup {"none", "removed"}
  /\ hasty \in BOOLEAN

(* No request that saw its capture as it is leaves an approved capture     *)
(* with a photograph that was not approved.                                *)
ApprovedIsReviewed ==
  ~hasty => \A s \in DOMAIN captures :
    captures[s].status = "approved" => \A p \in ActiveItems(s) : shots[s][p] = "approved"

=============================================================================
