------------------------ MODULE PublicCatalogProofs ------------------------
(***************************************************************************)
(* Theorems about PublicCatalog, for any rows, callers and readers.        *)
(*                                                                         *)
(* An item is looked up by four queries.  If the policy row it began with  *)
(* stands at the end, it stood at each of them (PolicyMovesOn), so what    *)
(* was read of it is one row: the atomicity.  A listing no write disturbed *)
(* has read one state, and there the filters of the catalogue and those of *)
(* the resolver are compared.                                              *)
(***************************************************************************)
EXTENDS PublicCatalog, ModelRepositoryProofs

Item ==
  [at : {"fetch", "hidden", "selected", "configured", "done"}, serving : SUBSET Bindings,
   hidden : BOOLEAN, selected : Bindings \cup {Null}, shown : Shown,
   policyBefore : PolicyRow \cup {Null}, before : BOOLEAN]

Listing ==
  [tenant : Tenants, asked : Asked, at : {"policies", "items"}, labels : SUBSET Labels,
   feature : UNION {[L -> Features] : L \in SUBSET Labels},
   item : UNION {[L -> Item] : L \in SUBSET Labels}, clean : BOOLEAN]

\* What the queries of an item would offer if they all ran under policy row p.
OfferedUnder(p, serving) == Offered(serving, Hidden(p), SelectedRevision(p)) # {}

\* What an item keeps, for p the policy row of its label: the policy only moves
\* on, and as long as it has not, what was read of it is that row.
SoundItem(i, p) ==
  /\ i.policyBefore # Null /\ p # i.policyBefore =>
       p # Null /\ p.generation > i.policyBefore.generation
  /\ i.at \in {"hidden", "selected", "configured"} =>
       i.before = OfferedUnder(i.policyBefore, i.serving)
  /\ p = i.policyBefore =>
       /\ i.at \in {"selected", "configured"} => i.hidden = Hidden(p)
       /\ i.at = "configured" => i.selected = SelectedRevision(p)
       /\ i.at = "done" => (i.shown = "available" <=> i.before)

\* What an item, of a label of feature f, has read if nothing has been written
\* since the listing began.
CleanItem(i, l, p, f) ==
  i.at # "fetch" =>
    /\ i.policyBefore = p
    /\ i.before = OfferedUnder(p, Serving(l, f))

SoundListing(q) ==
  /\ DOMAIN q.item = IF q.at = "items" THEN q.labels ELSE {}
  /\ q.labels \subseteq DOMAIN q.feature
  /\ q.clean =>
       /\ q.labels = IF q.at = "items" THEN Active(q.asked) \ HiddenFrom(q.tenant)
                     ELSE Active(q.asked)
       /\ \A l \in q.labels : q.feature[l] = label[l].feature
  /\ \A l \in DOMAIN q.item :
       /\ SoundItem(q.item[l], policy[q.tenant, l])
       /\ q.clean => CleanItem(q.item[l], l, policy[q.tenant, l], q.feature[l])

CInv ==
  /\ RepositoryInv
  /\ label \in [Labels -> LabelRow \cup {Null}]
  /\ listing \in [Readers -> Listing \cup {Null}]
  /\ \A r \in Readers : listing[r] # Null => SoundListing(listing[r])

-----------------------------------------------------------------------------
(* Shapes.                                                                 *)

LEMMA ItemTyped ==
  ASSUME NEW q \in Listing, NEW l \in DOMAIN q.item
  PROVE  q.item[l] \in Item /\ l \in Labels
BY DEF Listing

LEMMA ListingTyped ==
  ASSUME CInv, NEW r \in Readers, listing[r] # Null
  PROVE  listing[r] \in Listing /\ SoundListing(listing[r])
BY DEF CInv

\* What is sound stays so as long as no row a listing reads is written.
LEMMA SoundStands ==
  ASSUME UNCHANGED <<account, binding, policy, label>>, NEW r \in Readers,
         SoundListing(listing'[r])
  PROVE  SoundListing(listing[r])'
<1>1. /\ account' = account /\ binding' = binding /\ policy' = policy /\ label' = label
  OBVIOUS
<1>2. (listing[r].clean => listing[r].labels =
         IF listing[r].at = "items" THEN Active(listing[r].asked) \ HiddenFrom(listing[r].tenant)
         ELSE Active(listing[r].asked))'
  BY <1>1 DEF SoundListing, Active, HiddenFrom
<1>3. (listing[r].clean =>
         \A l \in listing[r].labels : listing[r].feature[l] = label[l].feature)'
  BY <1>1 DEF SoundListing
<1>4. ASSUME NEW l \in (DOMAIN listing[r].item)'
      PROVE  (/\ SoundItem(listing[r].item[l], policy[listing[r].tenant, l])
              /\ listing[r].clean => CleanItem(listing[r].item[l], l, policy[listing[r].tenant, l],
                                              listing[r].feature[l]))'
  <2>. DEFINE q == listing'[r]
              i == q.item[l]
              p == policy[q.tenant, l]
              f == q.feature[l]
  <2>1. SoundItem(i, p) /\ (q.clean => CleanItem(i, l, p, f))
    BY DEF SoundListing
  <2>2. (CleanItem(listing[r].item[l], l, policy[listing[r].tenant, l], listing[r].feature[l]))'
        <=> CleanItem(i, l, p, f)
    BY <1>1 DEF CleanItem, Serving
  <2>. QED  BY <1>1, <2>1, <2>2
<1>5. (/\ DOMAIN listing[r].item = IF listing[r].at = "items" THEN listing[r].labels ELSE {}
       /\ listing[r].labels \subseteq DOMAIN listing[r].feature)'
  BY DEF SoundListing
<1>. QED  BY <1>2, <1>3, <1>4, <1>5 DEF SoundListing

\* A step of one listing that leaves it sound.
LEMMA ListingKeeps ==
  ASSUME CInv, UNCHANGED <<vars, label>>, NEW r \in Readers, NEW q \in Listing,
         listing' = [listing EXCEPT ![r] = q], SoundListing(q)
  PROVE  CInv'
<1>1. /\ account' = account /\ binding' = binding /\ policy' = policy /\ label' = label
      /\ UNCHANGED vars
  BY DEF vars
<1>2. RepositoryInv'
  BY <1>1, NextRepositoryInv DEF CInv
<1>3. \A s \in Readers : listing'[s] = IF s = r THEN q ELSE listing[s]
  BY DEF CInv
<1>4. ASSUME NEW s \in Readers, listing'[s] # Null
      PROVE  SoundListing(listing[s])'
  <2>1. SoundListing(listing'[s])
    BY <1>3, <1>4 DEF CInv
  <2>. QED  BY <1>1, <2>1, SoundStands
<1>. QED  BY <1>1, <1>2, <1>4 DEF CInv

\* A step of one item that leaves it sound.
LEMMA ItemKeeps ==
  ASSUME CInv, UNCHANGED <<vars, label>>, NEW r \in Readers, listing[r] # Null,
         NEW l \in DOMAIN listing[r].item, NEW i \in Item, SetItem(r, l, i),
         SoundItem(i, policy[listing[r].tenant, l]),
         listing[r].clean =>
           CleanItem(i, l, policy[listing[r].tenant, l], listing[r].feature[l])
  PROVE  CInv'
<1>. DEFINE q == listing[r]
            n == [q EXCEPT !.item[l] = i]
<1>1. q \in Listing /\ SoundListing(q)
  BY ListingTyped
<1>2. PICK L \in SUBSET Labels : q.item \in [L -> Item]
  BY <1>1 DEF Listing
<1>3. n.item = [q.item EXCEPT ![l] = i] /\ n.item \in [L -> Item]
  BY <1>1, <1>2 DEF Listing
<1>4. /\ n \in Listing
      /\ n.tenant = q.tenant /\ n.asked = q.asked /\ n.at = q.at /\ n.labels = q.labels
      /\ n.feature = q.feature /\ n.clean = q.clean
  BY <1>1, <1>3 DEF Listing
<1>5. listing' = [listing EXCEPT ![r] = n]
  BY DEF SetItem, CInv
<1>6. DOMAIN n.item = DOMAIN q.item
  BY <1>2, <1>3
<1>7. \A k \in DOMAIN q.item : n.item[k] = IF k = l THEN i ELSE q.item[k]
  BY <1>2, <1>3
<1>. HIDE DEF n
<1>8. SoundListing(n)
  BY <1>1, <1>4, <1>6, <1>7 DEF SoundListing
<1>. QED  BY <1>4, <1>5, <1>8, ListingKeeps

-----------------------------------------------------------------------------
(* The queries of a listing.                                               *)

LEMMA ListLabelsKeeps ==
  ASSUME CInv, UNCHANGED <<vars, label>>, NEW r \in Readers, ListLabels(r)
  PROVE  CInv'
<1>1. PICK t \in Tenants, asked \in Asked :
        listing' = [listing EXCEPT ![r] =
          [tenant |-> t, asked |-> asked, at |-> "policies", labels |-> Active(asked),
           feature |-> [l \in Active(asked) |-> label[l].feature],
           item |-> [l \in {} |-> Null], clean |-> TRUE]]
  BY DEF ListLabels
<1>. DEFINE none == [l \in {} |-> Null]
            feature == [l \in Active(asked) |-> label[l].feature]
            q == [tenant |-> t, asked |-> asked, at |-> "policies", labels |-> Active(asked),
                  feature |-> feature, item |-> none, clean |-> TRUE]
<1>2. none \in [{} -> Item] /\ DOMAIN none = {} /\ {} \in SUBSET Labels
  OBVIOUS
<1>3. Active(asked) \in SUBSET Labels
  BY DEF Active
<1>4. feature \in [Active(asked) -> Features] /\ DOMAIN feature = Active(asked)
  BY DEF Active, CInv, LabelRow
<1>5. \A l \in Active(asked) : feature[l] = label[l].feature
  OBVIOUS
<1>6. listing' = [listing EXCEPT ![r] = q]
  BY <1>1
<1>. HIDE DEF none, feature
<1>7. q \in Listing
  BY <1>2, <1>3, <1>4 DEF Listing
<1>8. SoundListing(q)
  BY <1>2, <1>4, <1>5 DEF SoundListing
<1>. HIDE DEF q
<1>. QED  BY <1>6, <1>7, <1>8, ListingKeeps

LEMMA NewItemTyped == NewItem \in Item /\ NewItem.at = "fetch" /\ NewItem.policyBefore = Null
BY DEF NewItem, Item, Shown

LEMMA ListPoliciesKeeps ==
  ASSUME CInv, UNCHANGED <<vars, label>>, NEW r \in Readers, ListPolicies(r)
  PROVE  CInv'
<1>. DEFINE q == listing[r]
            kept == q.labels \ HiddenFrom(q.tenant)
            items == [l \in kept |-> NewItem]
            n == [q EXCEPT !.at = "items", !.labels = kept, !.item = items]
<1>1. q \in Listing /\ SoundListing(q) /\ q.at = "policies"
  BY ListingTyped DEF ListPolicies
<1>2. kept \in SUBSET Labels /\ items \in [kept -> Item]
  BY <1>1, NewItemTyped DEF Listing
<1>3. DOMAIN items = kept /\ \A l \in kept : items[l] = NewItem
  OBVIOUS
<1>4. /\ n \in Listing
      /\ n.tenant = q.tenant /\ n.asked = q.asked /\ n.at = "items" /\ n.labels = kept
      /\ n.feature = q.feature /\ n.item = items /\ n.clean = q.clean
  <2>. HIDE DEF kept, items
  <2>. QED  BY <1>1, <1>2 DEF Listing
<1>5. listing' = [listing EXCEPT ![r] = n]
  BY DEF ListPolicies, CInv
<1>6. SoundListing(n)
  <2>1. ASSUME q.clean
        PROVE  /\ kept = Active(q.asked) \ HiddenFrom(q.tenant)
               /\ \A l \in kept : q.feature[l] = label[l].feature
    BY <1>1, <2>1 DEF SoundListing
  <2>2. ASSUME NEW p PROVE SoundItem(NewItem, p)
    BY NewItemTyped DEF SoundItem
  <2>3. ASSUME NEW l, NEW p, NEW f PROVE CleanItem(NewItem, l, p, f)
    BY NewItemTyped DEF CleanItem
  <2>4. kept \subseteq DOMAIN q.feature
    BY <1>1 DEF SoundListing
  <2>. HIDE DEF kept, items, n
  <2>5. n.clean =>
          /\ n.labels = Active(n.asked) \ HiddenFrom(n.tenant)
          /\ \A l \in n.labels : n.feature[l] = label[l].feature
    BY <1>4, <2>1
  <2>6. ASSUME NEW l \in DOMAIN n.item
        PROVE  /\ SoundItem(n.item[l], policy[n.tenant, l])
               /\ n.clean => CleanItem(n.item[l], l, policy[n.tenant, l], n.feature[l])
    BY <1>3, <1>4, <2>2, <2>3
  <2>. QED  BY <1>3, <1>4, <2>4, <2>5, <2>6 DEF SoundListing
<1>. HIDE DEF n
<1>. QED  BY <1>4, <1>5, <1>6, ListingKeeps

LEMMA EndListingKeeps ==
  ASSUME CInv, UNCHANGED <<vars, label>>, NEW r \in Readers, EndListing(r)
  PROVE  CInv'
<1>1. /\ account' = account /\ binding' = binding /\ policy' = policy /\ label' = label
      /\ UNCHANGED vars
  BY DEF vars
<1>2. RepositoryInv'
  BY <1>1, NextRepositoryInv DEF CInv
<1>3. \A s \in Readers : listing'[s] = IF s = r THEN Null ELSE listing[s]
  BY DEF CInv, EndListing
<1>4. ASSUME NEW s \in Readers, listing'[s] # Null
      PROVE  SoundListing(listing[s])'
  <2>1. SoundListing(listing'[s])
    BY <1>3, <1>4 DEF CInv
  <2>. QED  BY <1>1, <2>1, SoundStands
<1>5. listing' \in [Readers -> Listing \cup {Null}]
  BY DEF CInv, EndListing
<1>. QED  BY <1>1, <1>2, <1>4, <1>5 DEF CInv

-----------------------------------------------------------------------------
(* The queries of an item.                                                 *)

\* What is known of the item that a query of reader r reads for.
LEMMA ItemKnown ==
  ASSUME CInv, NEW r \in Readers, NEW l \in Labels, NEW stage, ItemAt(r, l, stage)
  PROVE  /\ listing[r] # Null /\ l \in DOMAIN listing[r].item
         /\ listing[r].item[l] \in Item /\ listing[r].item[l].at = stage
         /\ listing[r].tenant \in Tenants
         /\ policy[listing[r].tenant, l] \in PolicyRow \cup {Null}
         /\ SoundItem(listing[r].item[l], policy[listing[r].tenant, l])
         /\ listing[r].clean =>
              CleanItem(listing[r].item[l], l, policy[listing[r].tenant, l],
                        listing[r].feature[l])
<1>1. listing[r] # Null /\ l \in DOMAIN listing[r].item /\ listing[r].item[l].at = stage
  BY DEF ItemAt
<1>2. listing[r] \in Listing /\ SoundListing(listing[r])
  BY <1>1, ListingTyped
<1>3. listing[r].item[l] \in Item /\ listing[r].tenant \in Tenants
  BY <1>1, <1>2, ItemTyped DEF Listing
<1>4. policy[listing[r].tenant, l] \in PolicyRow \cup {Null}
  BY <1>3 DEF CInv, RepositoryInv, SInv, IInv, TypeOK
<1>. QED  BY <1>1, <1>2, <1>3, <1>4 DEF SoundListing

LEMMA FetchServingKeeps ==
  ASSUME CInv, UNCHANGED <<vars, label>>, NEW r \in Readers, NEW l \in Labels,
         FetchServing(r, l)
  PROVE  CInv'
<1>. DEFINE o == listing[r].item[l]
            p == policy[listing[r].tenant, l]
            f == listing[r].feature[l]
            before == Offered(Serving(l, f), Hidden(p), SelectedRevision(p)) # {}
            i == [o EXCEPT !.at = "hidden", !.serving = Serving(l, f), !.policyBefore = p,
                           !.before = before]
<1>1. ItemAt(r, l, "fetch") /\ SetItem(r, l, i)
  BY DEF FetchServing
<1>2. /\ listing[r] # Null /\ l \in DOMAIN listing[r].item
      /\ o \in Item /\ p \in PolicyRow \cup {Null}
  BY <1>1, ItemKnown
<1>3. Serving(l, f) \in SUBSET Bindings /\ before \in BOOLEAN
  BY DEF Serving
<1>4. before = OfferedUnder(p, Serving(l, f))
  BY DEF OfferedUnder
<1>. HIDE DEF o, p, f, before
<1>5. /\ i \in Item
      /\ i.at = "hidden" /\ i.serving = Serving(l, f) /\ i.policyBefore = p /\ i.before = before
  BY <1>2, <1>3 DEF Item
<1>. HIDE DEF i
<1>6. SoundItem(i, p) /\ CleanItem(i, l, p, f)
  BY <1>4, <1>5 DEF SoundItem, CleanItem
<1>. QED  BY <1>1, <1>2, <1>5, <1>6, ItemKeeps DEF p, f

LEMMA ReadHiddenKeeps ==
  ASSUME CInv, UNCHANGED <<vars, label>>, NEW r \in Readers, NEW l \in Labels,
         ReadHidden(r, l)
  PROVE  CInv'
<1>. DEFINE o == listing[r].item[l]
            p == policy[listing[r].tenant, l]
            f == listing[r].feature[l]
            hidden == l \in HiddenFrom(listing[r].tenant)
            i == [o EXCEPT !.at = "selected", !.hidden = hidden]
<1>1. ItemAt(r, l, "hidden") /\ SetItem(r, l, i)
  BY DEF ReadHidden
<1>2. /\ listing[r] # Null /\ l \in DOMAIN listing[r].item
      /\ o \in Item /\ o.at = "hidden" /\ SoundItem(o, p)
      /\ listing[r].clean => CleanItem(o, l, p, f)
  BY <1>1, ItemKnown
<1>3. hidden = Hidden(p) /\ hidden \in BOOLEAN
  <2>1. hidden <=> Hidden(p)
    BY DEF HiddenFrom
  <2>2. hidden \in BOOLEAN /\ Hidden(p) \in BOOLEAN
    BY DEF Hidden
  <2>. HIDE DEF o, p, f, hidden
  <2>. QED  BY <2>1, <2>2
<1>. HIDE DEF o, p, f, hidden
<1>4. /\ i \in Item
      /\ i.at = "selected" /\ i.hidden = hidden /\ i.serving = o.serving
      /\ i.policyBefore = o.policyBefore /\ i.before = o.before
  BY <1>2, <1>3 DEF Item
<1>. HIDE DEF i
<1>5. SoundItem(i, p) /\ (listing[r].clean => CleanItem(i, l, p, f))
  BY <1>2, <1>3, <1>4 DEF SoundItem, CleanItem
<1>. QED  BY <1>1, <1>2, <1>4, <1>5, ItemKeeps DEF p, f

LEMMA ReadSelectedKeeps ==
  ASSUME CInv, UNCHANGED <<vars, label>>, NEW r \in Readers, NEW l \in Labels,
         ReadSelected(r, l)
  PROVE  CInv'
<1>. DEFINE o == listing[r].item[l]
            p == policy[listing[r].tenant, l]
            f == listing[r].feature[l]
            selected == SelectedRevision(p)
            i == [o EXCEPT !.at = "configured", !.selected = selected]
<1>1. ItemAt(r, l, "selected") /\ SetItem(r, l, i)
  BY DEF ReadSelected
<1>2. /\ listing[r] # Null /\ l \in DOMAIN listing[r].item
      /\ o \in Item /\ o.at = "selected" /\ SoundItem(o, p) /\ p \in PolicyRow \cup {Null}
      /\ listing[r].clean => CleanItem(o, l, p, f)
  BY <1>1, ItemKnown
<1>3. selected \in Bindings \cup {Null}
  BY <1>2 DEF SelectedRevision, Visible, PolicyRow
<1>. HIDE DEF o, p, f, selected
<1>4. /\ i \in Item
      /\ i.at = "configured" /\ i.selected = selected /\ i.serving = o.serving
      /\ i.hidden = o.hidden /\ i.policyBefore = o.policyBefore /\ i.before = o.before
  BY <1>2, <1>3 DEF Item
<1>. HIDE DEF i
<1>5. SoundItem(i, p) /\ (listing[r].clean => CleanItem(i, l, p, f))
  BY <1>2, <1>4 DEF SoundItem, CleanItem, selected
<1>. QED  BY <1>1, <1>2, <1>4, <1>5, ItemKeeps DEF p, f

LEMMA ReadConfiguredKeeps ==
  ASSUME CInv, UNCHANGED <<vars, label>>, NEW r \in Readers, NEW l \in Labels,
         ReadConfigured(r, l)
  PROVE  CInv'
<1>. DEFINE o == listing[r].item[l]
            p == policy[listing[r].tenant, l]
            f == listing[r].feature[l]
            shown == IF Offered(o.serving, o.hidden, o.selected) # {} THEN "available"
                     ELSE IF Configured(l, f) # {} THEN "provider_unavailable"
                     ELSE "unconfigured"
            i == [o EXCEPT !.at = "done", !.serving = {}, !.hidden = FALSE,
                           !.selected = Null, !.shown = shown]
<1>1. ItemAt(r, l, "configured") /\ SetItem(r, l, i)
  BY DEF ReadConfigured
<1>2. /\ listing[r] # Null /\ l \in DOMAIN listing[r].item
      /\ o \in Item /\ o.at = "configured" /\ SoundItem(o, p)
      /\ listing[r].clean => CleanItem(o, l, p, f)
  BY <1>1, ItemKnown
<1>3. /\ shown \in Shown
      /\ shown = "available" <=> Offered(o.serving, o.hidden, o.selected) # {}
  BY DEF Shown
<1>. HIDE DEF o, p, f, shown
<1>4. /\ i \in Item
      /\ i.at = "done" /\ i.shown = shown
      /\ i.policyBefore = o.policyBefore /\ i.before = o.before
  BY <1>2, <1>3 DEF Item
<1>. HIDE DEF i
<1>5. p = i.policyBefore => (i.shown = "available" <=> i.before)
  BY <1>2, <1>3, <1>4 DEF SoundItem, OfferedUnder
<1>6. SoundItem(i, p) /\ (listing[r].clean => CleanItem(i, l, p, f))
  BY <1>2, <1>4, <1>5 DEF SoundItem, CleanItem
<1>. QED  BY <1>1, <1>2, <1>4, <1>6, ItemKeeps DEF p, f

-----------------------------------------------------------------------------
(* The writes.                                                             *)

\* What an item keeps when its policy row is written, or another row is.
LEMMA ItemOvertaken ==
  ASSUME RepositoryInv, [Next]_vars, NEW t \in Tenants, NEW l \in Labels, NEW i \in Item,
         SoundItem(i, policy[t, l])
  PROVE  SoundItem(i, policy'[t, l])
<1>. DEFINE k == <<t, l>>
            p == i.policyBefore
<1>1. k \in Tenants \X Labels /\ p \in PolicyRow \cup {Null}
  BY DEF Item
<1>2. policy[t, l] = policy[k] /\ policy'[t, l] = policy'[k]
  OBVIOUS
<1>3. p # Null /\ policy[k] # p => policy[k] # Null /\ policy[k].generation > p.generation
  BY DEF SoundItem
<1>. HIDE DEF k
<1>4. /\ p # Null /\ policy'[k] # p => policy'[k] # Null /\ policy'[k].generation > p.generation
      /\ policy'[k] = p => policy[k] = p
  <2>. HIDE DEF p
  <2>. QED  BY <1>1, <1>3, PolicyMovesOn
<1>5. policy'[k] = p => SoundItem(i, policy'[k])
  BY <1>2, <1>4
<1>. QED  BY <1>2, <1>4, <1>5 DEF SoundItem

LEMMA WriteOvertakes ==
  ASSUME CInv, [Next]_vars, label' \in [Labels -> LabelRow \cup {Null}], listing' = Overtaken
  PROVE  CInv'
<1>1. RepositoryInv'
  BY NextRepositoryInv DEF CInv
<1>2. ASSUME NEW r \in Readers, listing[r] # Null
      PROVE  /\ listing'[r] \in Listing
             /\ listing'[r].tenant = listing[r].tenant /\ listing'[r].at = listing[r].at
             /\ listing'[r].labels = listing[r].labels
             /\ listing'[r].feature = listing[r].feature
             /\ listing'[r].item = listing[r].item /\ listing'[r].clean = FALSE
  <2>1. listing[r] \in Listing /\ listing'[r] = [listing[r] EXCEPT !.clean = FALSE]
    BY <1>2, ListingTyped DEF Overtaken
  <2>. QED  BY <2>1 DEF Listing
<1>3. \A r \in Readers : listing[r] = Null => listing'[r] = Null
  BY DEF Overtaken
<1>4. listing' \in [Readers -> Listing \cup {Null}]
  <2>1. listing' = [r \in Readers |-> listing'[r]]
    BY DEF Overtaken
  <2>. QED  BY <1>2, <1>3, <2>1
<1>5. ASSUME NEW r \in Readers, listing'[r] # Null
      PROVE  SoundListing(listing[r])'
  <2>1. listing[r] # Null /\ listing[r] \in Listing /\ SoundListing(listing[r])
    BY <1>3, <1>5, ListingTyped
  <2>2. ASSUME NEW l \in DOMAIN listing[r].item
        PROVE  SoundItem(listing[r].item[l], policy'[listing[r].tenant, l])
    <3>1. listing[r].item[l] \in Item /\ l \in Labels /\ listing[r].tenant \in Tenants
      BY <2>1, ItemTyped DEF Listing
    <3>2. SoundItem(listing[r].item[l], policy[listing[r].tenant, l])
      BY <2>1 DEF SoundListing
    <3>. QED  BY <3>1, <3>2, ItemOvertaken DEF CInv
  <2>. QED  BY <1>2, <2>1, <2>2 DEF SoundListing
<1>. QED  BY <1>1, <1>4, <1>5 DEF CInv

\* A step that writes nothing a listing reads.
LEMMA NoWriteKeeps ==
  ASSUME CInv, [Next]_vars, UNCHANGED <<tables, label, listing>>
  PROVE  CInv'
<1>1. RepositoryInv'
  BY NextRepositoryInv DEF CInv
<1>2. account' = account /\ binding' = binding /\ policy' = policy
  BY DEF tables
<1>3. ASSUME NEW r \in Readers, listing'[r] # Null
      PROVE  SoundListing(listing[r])'
  <2>1. SoundListing(listing'[r])
    BY <1>3 DEF CInv
  <2>. QED  BY <1>2, <2>1, SoundStands
<1>. QED  BY <1>1, <1>3 DEF CInv

LEMMA EnsureLabelKeeps ==
  ASSUME CInv, NEW l \in Labels, NEW s \in Status \cup {Undefined}, NEW f \in Features,
         ensureModelLabel(l, s, f)
  PROVE  CInv'
<1>1. UNCHANGED vars /\ UNCHANGED tables
  BY DEF ensureModelLabel, vars, tables
<1>2. label' \in [Labels -> LabelRow \cup {Null}]
  <2>. DEFINE status == IF s # Undefined THEN s
                        ELSE IF label[l] = Null THEN "active" ELSE label[l].status
  <2>1. status \in Status
    BY DEF CInv, LabelRow, Status
  <2>2. label' = [label EXCEPT ![l] = [feature |-> f, status |-> status]]
    BY DEF ensureModelLabel
  <2>. HIDE DEF status
  <2>3. [feature |-> f, status |-> status] \in LabelRow
    BY <2>1 DEF LabelRow
  <2>. QED  BY <2>2, <2>3 DEF CInv
<1>3. CASE label' = label
  BY <1>1, <1>3, NoWriteKeeps DEF ensureModelLabel
<1>4. CASE label' # label
  BY <1>1, <1>2, <1>4, WriteOvertakes DEF ensureModelLabel
<1>. QED  BY <1>3, <1>4

LEMMA WriteKeeps ==
  ASSUME CInv, Write
  PROVE  CInv'
<1>1. CASE tables' = tables
  BY <1>1, NoWriteKeeps DEF Write
<1>2. CASE tables' # tables
  BY <1>2, WriteOvertakes DEF Write, CInv
<1>. QED  BY <1>1, <1>2

-----------------------------------------------------------------------------
(* The invariant.                                                          *)

LEMMA InitCInv == CatalogInit => CInv
<1>. SUFFICES ASSUME CatalogInit PROVE CInv
  OBVIOUS
<1>1. RepositoryInv
  BY InitRepositoryInv DEF CatalogInit
<1>. QED  BY <1>1 DEF CatalogInit, CInv

LEMMA ListKeeps ==
  ASSUME CInv, NEW r \in Readers, List(r)
  PROVE  CInv'
<1>1. UNCHANGED <<vars, label>>
  BY DEF List
<1>. QED
  BY <1>1, ListLabelsKeeps, ListPoliciesKeeps, EndListingKeeps, FetchServingKeeps,
     ReadHiddenKeeps, ReadSelectedKeeps, ReadConfiguredKeeps
  DEF List

LEMMA NextCInv == CInv /\ [CatalogNext]_catalogVars => CInv'
<1>. SUFFICES ASSUME CInv, [CatalogNext]_catalogVars PROVE CInv'
  OBVIOUS
<1>1. CASE UNCHANGED catalogVars
  <2>1. UNCHANGED vars /\ UNCHANGED <<tables, label, listing>>
    BY <1>1 DEF catalogVars, vars, tables
  <2>. QED  BY <2>1, NoWriteKeeps
<1>2. CASE CatalogNext
  BY <1>2, WriteKeeps, EnsureLabelKeeps, ListKeeps DEF CatalogNext
<1>. QED  BY <1>1, <1>2

LEMMA Invariance == CatalogSpec => []CInv
BY InitCInv, NextCInv, PTL DEF CatalogSpec

-----------------------------------------------------------------------------
(* The theorems.                                                           *)

\* What the readers do writes nothing: beside them, the repository behaves as
\* it does alone, and keeps all it promises.
THEOREM CatalogKeepsRepository == CatalogSpec => Spec
<1>1. CatalogInit => Init
  BY DEF CatalogInit
<1>2. [CatalogNext]_catalogVars => [Next]_vars
  BY DEF CatalogNext, Write, ensureModelLabel, List, catalogVars
<1>. QED  BY <1>1, <1>2, PTL DEF CatalogSpec, Spec

\* What a listing has read keeps its types and its shape, through every
\* interleaving with writes.
THEOREM CatalogTypeCorrect == CatalogSpec => []CatalogTypeOK
<1>1. CInv => CatalogTypeOK
  <2>. SUFFICES ASSUME CInv PROVE CatalogTypeOK
    OBVIOUS
  <2>1. TypeOK
    BY DEF CInv, RepositoryInv, SInv, IInv
  <2>2. ASSUME NEW r \in Readers, listing[r] # Null
        PROVE  LET q == listing[r] IN
               /\ q.tenant \in Tenants /\ q.asked \in Asked
               /\ q.labels \subseteq Labels
               /\ \A l \in q.labels : l \in DOMAIN q.feature /\ q.feature[l] \in Features
               /\ q.at \in {"policies", "items"} /\ q.clean \in BOOLEAN
               /\ DOMAIN q.item = (IF q.at = "items" THEN q.labels ELSE {})
               /\ \A l \in DOMAIN q.item :
                    /\ q.item[l].at \in {"fetch", "hidden", "selected", "configured", "done"}
                    /\ q.item[l].serving \subseteq Bindings
                    /\ q.item[l].hidden \in BOOLEAN
                    /\ q.item[l].selected \in Bindings \cup {Null}
                    /\ q.item[l].shown \in Shown
    <3>. DEFINE q == listing[r]
    <3>1. q \in Listing /\ SoundListing(q)
      BY <2>2, ListingTyped
    <3>. HIDE DEF q
    <3>2. \A l \in DOMAIN q.item : q.item[l] \in Item
      BY <3>1, ItemTyped
    <3>3. /\ q.tenant \in Tenants /\ q.asked \in Asked /\ q.labels \subseteq Labels
          /\ q.at \in {"policies", "items"} /\ q.clean \in BOOLEAN
      BY <3>1 DEF Listing
    <3>4. DOMAIN q.item = (IF q.at = "items" THEN q.labels ELSE {})
      BY <3>1 DEF SoundListing
    <3>5. ASSUME NEW l \in q.labels PROVE l \in DOMAIN q.feature /\ q.feature[l] \in Features
      <4>1. l \in DOMAIN q.feature
        BY <3>1 DEF SoundListing
      <4>2. q.feature \in UNION {[L -> Features] : L \in SUBSET Labels}
        BY <3>1 DEF Listing
      <4>. QED  BY <4>1, <4>2
    <3>. QED  BY <3>2, <3>3, <3>4, <3>5 DEF Item, q
  <2>. QED  BY <2>1, <2>2 DEF CatalogTypeOK, CInv
<1>. QED  BY <1>1, Invariance, PTL

\* Three of the four queries behind an item read what a writer may change in
\* between; still the item is what it was at the first, if the policy row
\* stands at the end.
THEOREM ItemsAreAtomic == CatalogSpec => []ItemIsAtomicWhilePolicyStands
<1>1. CInv => ItemIsAtomicWhilePolicyStands
  <2>. SUFFICES ASSUME CInv, NEW r \in Readers, listing[r] # Null,
                       NEW l \in DOMAIN listing[r].item, listing[r].item[l].at = "done",
                       policy[listing[r].tenant, l] = listing[r].item[l].policyBefore
                PROVE  listing[r].item[l].shown = "available" <=> listing[r].item[l].before
    BY DEF ItemIsAtomicWhilePolicyStands
  <2>1. SoundItem(listing[r].item[l], policy[listing[r].tenant, l])
    BY ListingTyped DEF SoundListing
  <2>. QED  BY <2>1 DEF SoundItem
<1>. QED  BY <1>1, Invariance, PTL

-----------------------------------------------------------------------------
(* The catalogue and the resolver.                                         *)

\* A revision the resolver would choose from is among those that are offered, if
\* it is of the feature they were looked for with.
LEMMA RoutableOffered ==
  ASSUME CInv, NEW t \in Tenants, NEW l \in Labels, NEW b \in RoutableThrough(t, l)
  PROVE  ~Hidden(policy[t, l]) /\ OfferedUnder(policy[t, l], Serving(l, binding[b].feature))
<1>. DEFINE p == policy[t, l]
<1>1. b \in Narrowed(ServableRows(account, binding), l, Hidden(p), SelectedRevision(p))
  BY DEF RoutableThrough
<1>2. /\ b \in Bindings /\ ServableRows(account, binding)[b] # Null
      /\ l \in ServableRows(account, binding)[b].labels
      /\ ~Hidden(p) /\ (SelectedRevision(p) # Null => b = SelectedRevision(p))
  BY <1>1 DEF Narrowed
<1>3. Serves(account, binding, b) /\ l \in binding[b].labels
  BY <1>2 DEF ServableRows, Servable
<1>4. b \in Offered(Serving(l, binding[b].feature), Hidden(p), SelectedRevision(p))
  BY <1>2, <1>3 DEF Offered, Serving
<1>. QED  BY <1>2, <1>4 DEF OfferedUnder

\* What a finished listing that no write disturbed shows of a label.
LEMMA CleanShown ==
  ASSUME CInv, NEW r \in Readers, Finished(r), listing[r].clean
  PROVE  /\ listing[r].tenant \in Tenants
         /\ DOMAIN listing[r].item = listing[r].labels
         /\ listing[r].labels = Active(listing[r].asked) \ HiddenFrom(listing[r].tenant)
         /\ \A l \in listing[r].labels :
              listing[r].item[l].shown = "available" <=>
                OfferedUnder(policy[listing[r].tenant, l], Serving(l, label[l].feature))
<1>. DEFINE q == listing[r]
<1>1. /\ q # Null /\ q.at = "items" /\ \A l \in DOMAIN q.item : q.item[l].at = "done"
      /\ q \in Listing /\ SoundListing(q) /\ q.clean
  BY ListingTyped DEF Finished
<1>. HIDE DEF q
<1>2. q.tenant \in Tenants
  BY <1>1 DEF Listing
<1>3. /\ DOMAIN q.item = q.labels /\ q.labels = Active(q.asked) \ HiddenFrom(q.tenant)
      /\ \A l \in q.labels : q.feature[l] = label[l].feature
  BY <1>1 DEF SoundListing
<1>4. ASSUME NEW l \in q.labels
      PROVE  q.item[l].shown = "available" <=>
               OfferedUnder(policy[q.tenant, l], Serving(l, label[l].feature))
  <2>1. /\ q.item[l].at = "done" /\ SoundItem(q.item[l], policy[q.tenant, l])
        /\ CleanItem(q.item[l], l, policy[q.tenant, l], label[l].feature)
    BY <1>1, <1>3 DEF SoundListing
  <2>. QED  BY <2>1 DEF SoundItem, CleanItem
<1>. QED  BY <1>2, <1>3, <1>4 DEF q

\* The catalogue and the resolver agree in one direction: every active label that
\* can be routed through a revision of its own feature is offered as available by
\* a listing of that feature, or of any, which no write disturbed.
THEOREM RoutableIsOffered == CatalogSpec => []RoutableLabelIsOffered
<1>1. CInv => RoutableLabelIsOffered
  <2>. SUFFICES ASSUME CInv, NEW r \in Readers, Finished(r), listing[r].clean,
                       NEW l \in Active(listing[r].asked),
                       NEW b \in RoutableThrough(listing[r].tenant, l),
                       binding[b].feature = label[l].feature
                PROVE  l \in listing[r].labels /\ listing[r].item[l].shown = "available"
    BY DEF RoutableLabelIsOffered
  <2>1. l \in Labels /\ listing[r].tenant \in Tenants
    BY CleanShown DEF Active
  <2>2. ~Hidden(policy[listing[r].tenant, l])
        /\ OfferedUnder(policy[listing[r].tenant, l], Serving(l, label[l].feature))
    BY <2>1, RoutableOffered
  <2>3. l \in listing[r].labels
    BY <2>2, CleanShown DEF HiddenFrom
  <2>. QED  BY <2>2, <2>3, CleanShown
<1>. QED  BY <1>1, Invariance, PTL

\* Of what is offered, the transport alone keeps a label from being routed: as
\* long as every binding is reached through LiteLLM, a listing no write disturbed
\* offers as available only what resolves.
THEOREM AvailableIsRoutableThroughLiteLLM ==
  (\A b \in Bindings : TransportOf[b] = "litellm")
    => (CatalogSpec => []AvailableLabelIsRoutable)
<1>. SUFFICES ASSUME \A b \in Bindings : TransportOf[b] = "litellm"
              PROVE  CatalogSpec => []AvailableLabelIsRoutable
  OBVIOUS
<1>1. CInv => AvailableLabelIsRoutable
  <2>. SUFFICES ASSUME CInv, NEW r \in Readers, Finished(r), listing[r].clean,
                       NEW l \in DOMAIN listing[r].item,
                       listing[r].item[l].shown = "available"
                PROVE  RouteOf(account, binding, policy, listing[r].tenant, l) # Null
    BY DEF AvailableLabelIsRoutable
  <2>. DEFINE t == listing[r].tenant
              p == policy[t, l]
  <2>1. t \in Tenants /\ l \in Labels /\ l \notin HiddenFrom(t)
    BY CleanShown DEF Active
  <2>2. OfferedUnder(p, Serving(l, label[l].feature))
    BY CleanShown
  <2>3. PICK b \in Bindings : /\ Serves(account, binding, b) /\ l \in binding[b].labels
                              /\ ~Hidden(p) /\ (SelectedRevision(p) # Null => b = SelectedRevision(p))
    BY <2>2 DEF OfferedUnder, Offered, Serving
  <2>4. Servable(account, binding, b)
    BY <2>3 DEF Servable
  <2>5. SelectedRevision(p) \in {Null, b}
    BY <2>3
  <2>. QED  BY <2>1, <2>3, <2>4, <2>5, RouteExists DEF CInv
<1>. QED  BY <1>1, Invariance, PTL
=============================================================================
