--------------------------- MODULE PublicCatalog ---------------------------
(***************************************************************************)
(* ModelService.listPublicModelCatalog: what a tenant is offered, composed *)
(* from many reads while the repository's callers write.                   *)
(*                                                                         *)
(* The active labels are read, then the tenant's policies, which take the  *)
(* hidden labels out; then every remaining label is looked up on its own,  *)
(* all at once: the three queries of resolveModelBindings, with any        *)
(* transport, and the one of listModelBindings.  The answer is cut into    *)
(* pages elsewhere; here it is whole.                                      *)
(*                                                                         *)
(* A label and a binding each carry a feature key, a string of their own   *)
(* that every ensure may rewrite.  The catalogue looks for bindings of the *)
(* label's feature; the resolver asks for no feature.                      *)
(***************************************************************************)
EXTENDS ModelRepository

CONSTANTS
  Readers,   \* concurrent listings
  Asked      \* the features they ask for, Undefined for any

VARIABLES
  label,     \* the label rows, by key
  listing    \* what a listing has read so far, or Null

catalogVars == <<vars, label, listing>>

LabelRow == [status : Status, feature : Features]

ASSUME ListingAssumption ==
  /\ Asked \subseteq Features \cup {Undefined}
  /\ Undefined \notin Features /\ Null \notin LabelRow

Shown == {"available", "provider_unavailable", "unconfigured"}

-----------------------------------------------------------------------------
(* The rows a listing reads.                                               *)

\* The active labels, of the feature asked for if one is.
Active(asked) ==
  {l \in Labels : /\ label[l] # Null /\ label[l].status = "active"
                  /\ asked \in {Undefined, label[l].feature}}

HiddenFrom(t) == {l \in Labels : Hidden(policy[t, l])}

\* The two queries behind an item, for a label l that was read with feature f:
\* with the account's state, and without.
Serving(l, f) ==
  {b \in Bindings : /\ Serves(account, binding, b)
                    /\ binding[b].feature = f
                    /\ l \in binding[b].labels}

Configured(l, f) ==
  {b \in Bindings : /\ Live(binding[b])
                    /\ binding[b].status = "active"
                    /\ binding[b].feature = f
                    /\ l \in binding[b].labels}

Offered(serving, hidden, selected) ==
  {b \in serving : ~hidden /\ (selected # Null => b = selected)}

-----------------------------------------------------------------------------
(* Writers.                                                                *)

\* A write overtakes the listings under way.
Overtaken ==
  [r \in Readers |-> IF listing[r] = Null THEN Null
                     ELSE [listing[r] EXCEPT !.clean = FALSE]]

\* One upsert: an omitted status is active in a new row and kept in an old one,
\* the feature is written either way.
ensureModelLabel(l, status, feature) ==
  /\ label' = [label EXCEPT ![l] =
       [feature |-> feature,
        status |-> IF status # Undefined THEN status
                   ELSE IF label[l] = Null THEN "active" ELSE label[l].status]]
  /\ listing' = IF label' = label THEN listing ELSE Overtaken
  /\ UNCHANGED vars

Write ==
  /\ Next
  /\ listing' = IF tables' = tables THEN listing ELSE Overtaken
  /\ UNCHANGED label

-----------------------------------------------------------------------------
(* A listing.                                                              *)

\* The labels are read with their features.  There is no item before the policies
\* are read.
ListLabels(r) ==
  /\ listing[r] = Null
  /\ \E t \in Tenants, asked \in Asked :
       listing' = [listing EXCEPT ![r] =
         [tenant |-> t, asked |-> asked, at |-> "policies", labels |-> Active(asked),
          feature |-> [l \in Active(asked) |-> label[l].feature],
          item |-> [l \in {} |-> Null], clean |-> TRUE]]

NewItem ==
  [at |-> "fetch", serving |-> {}, hidden |-> FALSE, selected |-> Null,
   shown |-> "unconfigured", policyBefore |-> Null, before |-> FALSE]

\* Mutants of ListPolicies: the items are built from the labels as they were
\* read; a label with any policy is taken out.
ListPoliciesUnfiltered(r) ==
  /\ listing[r] # Null /\ listing[r].at = "policies"
  /\ LET q == listing[r]
         kept == q.labels \ HiddenFrom(q.tenant)
     IN listing' = [listing EXCEPT ![r].at = "items", ![r].labels = kept,
                                   ![r].item = [l \in q.labels |-> NewItem]]

ListPoliciesAny(r) ==
  /\ listing[r] # Null /\ listing[r].at = "policies"
  /\ LET q == listing[r]
         kept == {l \in q.labels : policy[q.tenant, l] = Null}
     IN listing' = [listing EXCEPT ![r].at = "items", ![r].labels = kept,
                                   ![r].item = [l \in kept |-> NewItem]]

ListPolicies(r) ==
  /\ listing[r] # Null /\ listing[r].at = "policies"
  /\ LET q == listing[r]
         kept == q.labels \ HiddenFrom(q.tenant)
     IN listing' = [listing EXCEPT ![r].at = "items", ![r].labels = kept,
                                   ![r].item = [l \in kept |-> NewItem]]

\* The item of label l is at a query, and what it becomes.
ItemAt(r, l, stage) ==
  listing[r] # Null /\ l \in DOMAIN listing[r].item /\ listing[r].item[l].at = stage

SetItem(r, l, item) == listing' = [listing EXCEPT ![r].item[l] = item]

\* before and policyBefore are history: what the item would be if all of its
\* queries ran now, and the policy row now.
FetchServing(r, l) ==
  /\ ItemAt(r, l, "fetch")
  /\ LET p == policy[listing[r].tenant, l]
         serving == Serving(l, listing[r].feature[l])
     IN SetItem(r, l,
          [listing[r].item[l] EXCEPT
             !.at = "hidden", !.serving = serving, !.policyBefore = p,
             !.before = Offered(serving, Hidden(p), SelectedRevision(p)) # {}])

\* Mutant of ReadHidden: the listing has already taken hidden labels out, so
\* the lookup is skipped.
ReadHiddenSkipped(r, l) ==
  /\ ItemAt(r, l, "hidden")
  /\ SetItem(r, l, [listing[r].item[l] EXCEPT !.at = "selected"])

ReadHidden(r, l) ==
  /\ ItemAt(r, l, "hidden")
  /\ SetItem(r, l, [listing[r].item[l] EXCEPT
       !.at = "selected", !.hidden = l \in HiddenFrom(listing[r].tenant)])

ReadSelected(r, l) ==
  /\ ItemAt(r, l, "selected")
  /\ SetItem(r, l, [listing[r].item[l] EXCEPT
       !.at = "configured", !.selected = SelectedRevision(policy[listing[r].tenant, l])])

\* The item is composed; what was read for it is dropped.
ReadConfigured(r, l) ==
  /\ ItemAt(r, l, "configured")
  /\ LET i == listing[r].item[l]
     IN SetItem(r, l, [i EXCEPT
          !.at = "done", !.serving = {}, !.hidden = FALSE, !.selected = Null,
          !.shown = IF Offered(i.serving, i.hidden, i.selected) # {} THEN "available"
                    ELSE IF Configured(l, listing[r].feature[l]) # {}
                    THEN "provider_unavailable"
                    ELSE "unconfigured"])

\* The answer is sent, or a query has failed and the listing with it.
EndListing(r) ==
  /\ listing[r] # Null
  /\ listing' = [listing EXCEPT ![r] = Null]

List(r) ==
  /\ \/ ListLabels(r) \/ ListPolicies(r) \/ EndListing(r)
     \/ \E l \in Labels : \/ FetchServing(r, l) \/ ReadHidden(r, l)
                          \/ ReadSelected(r, l) \/ ReadConfigured(r, l)
  /\ UNCHANGED <<vars, label>>

CatalogInit ==
  /\ Init
  /\ label \in [Labels -> LabelRow \cup {Null}]
  /\ listing = [r \in Readers |-> Null]

CatalogNext ==
  \/ Write
  \/ \E l \in Labels, s \in Status \cup {Undefined}, f \in Features : ensureModelLabel(l, s, f)
  \/ \E r \in Readers : List(r)

CatalogSpec == CatalogInit /\ [][CatalogNext]_catalogVars

CatalogTypeOK ==
  /\ TypeOK
  /\ label \in [Labels -> LabelRow \cup {Null}]
  /\ \A r \in Readers : listing[r] # Null =>
       LET q == listing[r] IN
       /\ q.tenant \in Tenants /\ q.asked \in Asked
       /\ q.labels \subseteq Labels
       /\ \A l \in q.labels : l \in DOMAIN q.feature /\ q.feature[l] \in Features
       /\ q.at \in {"policies", "items"} /\ q.clean \in BOOLEAN
       /\ DOMAIN q.item = (IF q.at = "items" THEN q.labels ELSE {})
       /\ \A l \in DOMAIN q.item :
            /\ q.item[l].at \in {"fetch", "hidden", "selected", "configured", "done"}
            /\ q.item[l].serving \subseteq Bindings
            /\ q.item[l].hidden \in BOOLEAN
            /\ q.item[l].selected \in Bindings \cup {Null}
            /\ q.item[l].shown \in Shown

-----------------------------------------------------------------------------
Finished(r) ==
  /\ listing[r] # Null /\ listing[r].at = "items"
  /\ \A l \in DOMAIN listing[r].item : listing[r].item[l].at = "done"

\* The revisions the resolver would choose from for a label of a tenant.
RoutableThrough(t, l) ==
  LET p == policy[t, l]
  IN Narrowed(ServableRows(account, binding), l, Hidden(p), SelectedRevision(p))

\* The catalogue and the resolver agree in one direction, two code paths with
\* filters of their own: a listing no write disturbed offers, as available,
\* every active label of the feature asked for that could be routed through a
\* revision of its own feature.  One that only revisions of another feature
\* could serve has a route as well, and is not shown as available.
RoutableLabelIsOffered ==
  \A r \in Readers : Finished(r) /\ listing[r].clean =>
    \A l \in Active(listing[r].asked) :
      (\E b \in RoutableThrough(listing[r].tenant, l) : binding[b].feature = label[l].feature) =>
        l \in listing[r].labels /\ listing[r].item[l].shown = "available"

\* An item whose policy row stands still while it is looked up is available
\* exactly if it was at the instant its revisions were fetched, however many
\* revisions, accounts and labels were written since the listing began.
ItemIsAtomicWhilePolicyStands ==
  \A r \in Readers : listing[r] # Null =>
    \A l \in DOMAIN listing[r].item :
      LET i == listing[r].item[l] IN
      i.at = "done" /\ policy[listing[r].tenant, l] = i.policyBefore =>
        (i.shown = "available" <=> i.before)

\* API_CONTRACT.md: availability keeps the catalogue from passing off as
\* executable what merely exists; execution follows the resolve RPC.
AvailableLabelIsRoutable ==
  \A r \in Readers : Finished(r) /\ listing[r].clean =>
    \A l \in DOMAIN listing[r].item :
      listing[r].item[l].shown = "available" =>
        RouteOf(account, binding, policy, listing[r].tenant, l) # Null
=============================================================================
