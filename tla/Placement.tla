------------------------------ MODULE Placement ------------------------------
(***************************************************************************)
(* Placement of a request on a host (placement.py).  Hard constraints make *)
(* a host eligible, the request's preferences rank the eligible ones, and  *)
(* the lease binds the choice to the snapshot it was made from.  Hosts     *)
(* observe themselves anew, leave and come back while the lease ages.      *)
(*                                                                         *)
(* A snapshot stands for its digest.  Hosts are numbers, ordered as their  *)
(* identifiers are.                                                        *)
(***************************************************************************)
EXTENDS Integers, Sequences, SequencesExt

CONSTANTS
    HostCount,  \* how many hosts there are; host h has the h-th identifier
    Facts,      \* what a host may report of itself
    Placements, \* the requests: [request_id, requirements, preferences]
    Ttl,        \* lease_ttl_seconds
    Skew,       \* bound on how far a host's clock is ahead
    MaxTime     \* bound on the clock

CRITERIA == {"PREFERRED_HOST_ORDER", "MORE_AVAILABLE_MEMORY", "LOWER_NORMALIZED_LOAD"}

ASSUME PlacementAssumption ==
    /\ HostCount \in Nat
    /\ Ttl \in Nat \ {0} /\ Skew \in Nat

\* What parse_devspace_host_snapshot and PlacementPreferences.__post_init__ require.
ASSUME PreferenceAssumption ==
    /\ \A facts \in Facts : facts.available_memory \in Int /\ facts.load \in Int
    /\ \A r \in Placements : /\ r.preferences.criteria \in Seq(CRITERIA)
                              /\ r.preferences.hosts \in Seq(Nat)

VARIABLES
    inventory,  \* inventory[h]: the snapshot DevSpace has of host h, or Offline
    lease,      \* the lease a caller keeps, with its decision, or NoLease
    clock

placement_vars == <<inventory, lease, clock>>

Hosts == 1 .. HostCount

Offline == [online |-> FALSE]

NoLease == [host |-> 0]

-----------------------------------------------------------------------------

present(inv) == {h \in Hosts : inv[h].online}

\* One snapshot that does not match its digest refuses the whole inventory.
parse_devspace_host_snapshot(snapshot) == snapshot.facts.intact

hard_constraints_pass(requirements, facts) ==
    /\ requirements.platform \in {"", facts.platform}
    /\ facts.total_memory >= requirements.min_memory
    /\ requirements.capabilities \subseteq facts.verified
    /\ requirements.capabilities \cap facts.missing = {}

\* One number for each criterion, in the order of the request.
preference_score(preferences, h, facts) ==
    [k \in DOMAIN preferences.criteria |->
        CASE preferences.criteria[k] = "PREFERRED_HOST_ORDER" ->
                IF Contains(preferences.hosts, h)
                THEN Len(preferences.hosts) - (CHOOSE i \in DOMAIN preferences.hosts : preferences.hosts[i] = h)
                     + 1
                ELSE 0
          [] preferences.criteria[k] = "MORE_AVAILABLE_MEMORY" -> facts.available_memory
          [] preferences.criteria[k] = "LOWER_NORMALIZED_LOAD" -> -facts.load]

\* Python's order of tuples of one length.
tuple_less(s, t) ==
    \E k \in DOMAIN s : s[k] < t[k] /\ \A j \in 1 .. k - 1 : s[j] = t[j]

eligible(r, inv) == {h \in present(inv) : hard_constraints_pass(r.requirements, inv[h].facts)}

\* max over the eligible hosts in the order of their identifiers: the first of
\* the best; 0 where none is eligible.
select(r, inv) ==
    LET score(h) == preference_score(r.preferences, h, inv[h].facts)
        best[n \in 0 .. HostCount] ==
            IF n = 0 THEN 0
            ELSE IF n \in eligible(r, inv) /\ (best[n - 1] # 0 => tuple_less(score(best[n - 1]), score(n)))
            THEN n ELSE best[n - 1] IN
    best[HostCount]

evaluates(r, inv) ==
    /\ \A h \in present(inv) : parse_devspace_host_snapshot(inv[h])
    /\ eligible(r, inv) # {}

\* _evaluate and _issue_lease.  considered is the inventory it was made from,
\* kept here to state what the lease promises.
issue_lease(r, inv, at) ==
    LET h == select(r, inv) IN
    [host |-> h, request |-> r, snapshot |-> inv[h], valid_until |-> inv[h].observed_at + Ttl,
     considered |-> inv, placed_at |-> at]

\* The request must be the one of the lease in name and requirements.
validate_lease_identity(r, l) ==
    /\ l.request.request_id = r.request_id
    /\ l.request.requirements = r.requirements

mutant_snapshot_current(l, snapshot) == snapshot.facts.platform = l.snapshot.facts.platform

snapshot_current(l, snapshot) == snapshot = l.snapshot

\* The status revalidate_lease answers; "raises" when it does.
revalidate_lease(r, l, inv, now, outcome) ==
    IF ~validate_lease_identity(r, l) THEN "raises"
    ELSE IF outcome = "OUTCOME_UNKNOWN" THEN "RECONCILIATION_REQUIRED"
    ELSE IF now >= l.valid_until THEN "REPLACEMENT_REQUIRED"
    ELSE IF \E h \in present(inv) : ~parse_devspace_host_snapshot(inv[h]) THEN "raises"
    ELSE IF /\ l.host \in present(inv)
            /\ hard_constraints_pass(r.requirements, inv[l.host].facts)
            /\ snapshot_current(l, inv[l.host])
    THEN "VALID" ELSE "REPLACEMENT_REQUIRED"

-----------------------------------------------------------------------------

PlacementInit ==
    /\ inventory = [h \in Hosts |-> Offline]
    /\ lease = NoLease
    /\ clock = 0

\* A host reports itself anew, by a clock that may be ahead.
observe(h, facts, ahead) ==
    /\ inventory' = [inventory EXCEPT ![h] = [online |-> TRUE, facts |-> facts, observed_at |-> clock + ahead]]
    /\ UNCHANGED <<lease, clock>>

drain(h) ==
    /\ inventory[h].online
    /\ inventory' = [inventory EXCEPT ![h] = Offline]
    /\ UNCHANGED <<lease, clock>>

place_with_lease(r) ==
    /\ evaluates(r, inventory)
    /\ lease' = issue_lease(r, inventory, clock)
    /\ UNCHANGED <<inventory, clock>>

pass_time ==
    /\ clock < MaxTime
    /\ clock' = clock + 1
    /\ UNCHANGED <<inventory, lease>>

PlacementNext ==
    \/ \E h \in Hosts : drain(h) \/ \E facts \in Facts, ahead \in 0 .. Skew : observe(h, facts, ahead)
    \/ \E r \in Placements : place_with_lease(r)
    \/ pass_time

PlacementSpec == PlacementInit /\ [][PlacementNext]_placement_vars

-----------------------------------------------------------------------------

\* A valid lease still says what placing anew would say: when no other host
\* changed since, the same request on the inventory of now is placed on the
\* host of the lease, which no eligible host beats; it is never older than the
\* time to live and the clocks' skew allow; and an operation of unknown outcome
\* gets neither a valid lease nor leave to be placed anew
\* (PlacementEngine._evaluate, revalidate_lease).
LeaseSound ==
    lease # NoLease => \A r \in Placements, outcome \in {"NONE", "OUTCOME_UNKNOWN"} :
        LET answer == revalidate_lease(r, lease, inventory, clock, outcome) IN
        /\ outcome = "OUTCOME_UNKNOWN" => answer \notin {"VALID", "REPLACEMENT_REQUIRED"}
        /\ answer = "VALID" =>
            /\ clock - lease.placed_at < Ttl + Skew
            /\ lease.host \in eligible(r, inventory)
            /\ (\A h \in Hosts \ {lease.host} : inventory[h] = lease.considered[h]) =>
                /\ select(lease.request, inventory) = lease.host
                /\ \A h \in eligible(lease.request, inventory) :
                    LET p == lease.request.preferences
                        mine  == preference_score(p, lease.host, inventory[lease.host].facts)
                        other == preference_score(p, h, inventory[h].facts) IN
                    ~tuple_less(mine, other) /\ (mine = other => lease.host <= h)

=============================================================================
