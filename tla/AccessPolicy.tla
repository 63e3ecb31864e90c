---------------------------- MODULE AccessPolicy ----------------------------
(***************************************************************************)
(* The authorization decisions of internal/access, as the persistence      *)
(* layer and the record service use them.  A session is what the           *)
(* authentication middleware leaves in the request context: per-resource   *)
(* privileges, a plain list of resources for sessions that carry no        *)
(* privileges, whether authorization is enforced at all (it is not in      *)
(* local mode), and whether a gen3 request came without an Authorization   *)
(* header.  Resources are normalized /organization/.../project/... paths;  *)
(* the wildcard method "*" is the set of all verbs.                        *)
(***************************************************************************)

CONSTANTS
    Sessions,    \* request sessions
    Resources,   \* controlled-access resource paths
    Privileges,  \* Privileges[s][r]: the verbs session s holds on resource r
    Authz,       \* Authz[s]: the plain resource list of session s
    Unenforced,  \* the sessions for which authorization is not enforced
    Anonymous    \* the gen3 sessions without an Authorization header

Verbs == {"read", "create", "update", "delete"}

ASSUME PolicyAssumption ==
    /\ Privileges \in [Sessions -> [Resources -> SUBSET Verbs]]
    /\ Authz \in [Sessions -> SUBSET Resources]
    /\ Unenforced \subseteq Sessions
    /\ Anonymous \subseteq Sessions \ Unenforced

\* Every listed resource must grant the method; no resource grants nothing.
HasMethodAccess(s, method, resources) ==
    \/ s \in Unenforced
    \/ /\ s \notin Anonymous
       /\ resources # {}
       /\ \A r \in resources : method \in Privileges[s][r]

\* Access if the record is unscoped or shares a resource with the user.
CheckAccess(recordResources, userResources) ==
    recordResources = {} \/ recordResources \cap userResources # {}

\* One granting resource is enough; an unscoped object is readable.
HasObjectMethodAccess(s, method, resources) ==
    \/ s \in Unenforced
    \/ /\ s \notin Anonymous
       /\ resources = {}
       /\ method = "read"
    \/ /\ s \notin Anonymous
       /\ resources # {}
       /\ IF \A r \in Resources : Privileges[s][r] = {}
            THEN CheckAccess(resources, Authz[s])
            ELSE \E r \in resources : method \in Privileges[s][r]

=============================================================================
