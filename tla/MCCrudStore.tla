---- MODULE MCCrudStore ----
(***************************************************************************)
(* TLC instances of CrudStore.  Each cfg picks the requests that may meet. *)
(* Calls are interchangeable: MCInit deals one of the orders of a meeting. *)
(***************************************************************************)
EXTENDS CrudStore, SequencesExt

CONSTANTS c1, c2, c3, k1, k2, k3, fa, fb, oa, ob

Request(op, names, relink) ==
  [op |-> op, id |-> k1, scope |-> {oa}, names |-> names, relink |-> relink, limit |-> 0]

PatchA == Request("patch", {fa}, FALSE)
PatchB == Request("patch", {fb}, TRUE)
EmptyPatchRequest == Request("patch", {}, FALSE)
UpdateA == Request("update", {fa}, FALSE)
DeleteIt == Request("delete", {}, FALSE)
DeleteQuietly == Request("deleteNoContent", {}, FALSE)
CreateOne == Request("create", {}, FALSE)
ReadIt == Request("read", {}, FALSE)
ListAll == Request("list", {}, FALSE)
ListOne == [ListAll EXCEPT !.limit = 1]

RequestOrder ==
  <<PatchA, PatchB, UpdateA, DeleteIt, DeleteQuietly, EmptyPatchRequest,
    CreateOne, ReadIt, ListAll, ListOne>>

WriterRequests == {PatchA, PatchB, UpdateA, DeleteIt, DeleteQuietly}
PairRequests == WriterRequests \cup {EmptyPatchRequest, CreateOne, ReadIt}
ListRequests == {ListAll, ListOne, CreateOne, DeleteIt}

Rank(r) == CHOOSE i \in DOMAIN RequestOrder : RequestOrder[i] = r

\* One call order of each meeting.
MCInit == /\ Init
          /\ Rank(req[c1]) <= Rank(req[c2])
          /\ c3 \in Calls => Rank(req[c2]) <= Rank(req[c3])

MCSpec == MCInit /\ [][Next]_vars
MCFairSpec == MCSpec /\ Fairness
====
