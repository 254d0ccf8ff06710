---------------------------- MODULE OrderPayloads ----------------------------
(***************************************************************************)
(* What the requests of a run say: the select orders made from a catalog   *)
(* (internal/domain/pipeline/select_batch.go), the init and confirm orders *)
(* made from the seller's callbacks (init_confirm_from_callbacks.go), and  *)
(* the errors injected on purpose as they are sent (coordinator.go).       *)
(*                                                                         *)
(* JSON objects are records, absent members are Nil, and identifiers are   *)
(* strings, of which "" is the empty one.  Members that the code copies    *)
(* without looking at them are left out, and of those it fills in with     *)
(* fixed texts (addresses, payment terms, types, times) only the place, the *)
(* person and the amount are kept.  These are pure functions; OrderFlow    *)
(* applies them to the requests of a run.                                  *)
(***************************************************************************)
EXTENDS Naturals, SequencesExt

CONSTANT Nil       \* an absent member, a refused payload

Empty == ""

\* The first element that is not empty, or "".
FirstNonEmpty(s) ==
    LET named == {k \in DOMAIN s : s[k] # Empty} IN IF named = {} THEN Empty ELSE s[Min(named)]

Ids(s) == [k \in DOMAIN s |-> s[k].id]

\* Members of r that are absent take the value they have in d.
Fill(r, d) == [f \in DOMAIN d |-> IF r = Nil THEN d[f] ELSE IF r[f] = Nil THEN d[f] ELSE r[f]]

-----------------------------------------------------------------------------
(* Select: orders of random items of the catalog's first provider.         *)

\* Orders have 1 to 5 items, all different.
MaxItemsPerOrder(prov) == IF Len(prov.items) < 5 THEN Len(prov.items) ELSE 5
Chosen(prov) == UNION {Injection(1..n, DOMAIN prov.items) : n \in 1..MaxItemsPerOrder(prov)}

ProviderLocation(prov) == Head(prov.locations \o <<Empty>>)

\* The first fulfillment of the provider that has a name.
DefaultFulfillmentId(prov) == FirstNonEmpty(Ids(prov.fulfillments))
FulfillmentId(prov, it) == FirstNonEmpty(<<it.fulfillment_id, DefaultFulfillmentId(prov)>>)

OrderItem(prov, it) ==
    [id |-> it.id, count |-> 2, fulfillment_id |-> FulfillmentId(prov, it),
     location_id |-> FirstNonEmpty(<<ProviderLocation(prov), it.location_id>>)]

\* Mutant: the last item decides, whether or not it has a location.
ChosenLocationLast(items) == Last(items).location_id

ChosenLocation(items) == FirstNonEmpty([k \in DOMAIN items |-> items[k].location_id])

\* buildDistinctOrdersFromOnSearch, for one choice of items: the order of the
\* example with its items, its provider and, if there are any, its fulfillments
\* replaced.
CatalogOrder(base, prov, chosen) ==
    LET items == [k \in DOMAIN chosen |-> OrderItem(prov, prov.items[chosen[k]])]
        location == ChosenLocation(items)
        used == {items[k].fulfillment_id : k \in DOMAIN items} \ {Empty}
        provider == [id |-> prov.id,
                     locations |-> IF location = Empty THEN base.provider.locations ELSE {location}]
    IN  [base EXCEPT !.items = items, !.provider = provider,
                     !.fulfillments = IF used = {} THEN @ ELSE
                        SetToSeq({[@[1] EXCEPT !.id = id] : id \in used})]

\* A catalog without a provider or without items leaves the order of the example.
SelectOrders(base, providers) ==
    IF providers = <<>> \/ Head(providers).items = <<>> THEN {base}
    ELSE {CatalogOrder(base, Head(providers), chosen) : chosen \in Chosen(Head(providers))}

\* normalizeSelectPayload refuses an order with nowhere to deliver to (an absent
\* gps or area code passes, an empty one does not) and fills what is absent.
NormalizeSelect(order) ==
    LET known == FirstNonEmpty(Ids(order.fulfillments))
        Deliverable(f) == f.end # Nil /\ Empty \notin {f.end.gps, f.end.area_code}
    IN  IF \E k \in DOMAIN order.fulfillments : ~Deliverable(order.fulfillments[k]) THEN Nil
        ELSE [order EXCEPT
                !.items = [k \in DOMAIN @ |-> IF @[k].fulfillment_id = Nil /\ known # Empty
                             THEN [@[k] EXCEPT !.fulfillment_id = known] ELSE @[k]]]

-----------------------------------------------------------------------------
(* Init and confirm, from the order of a callback.                         *)

\* Mutant: the quantities of the quote are not looked up.
ItemCountNoQuote(order, item) == IF item.id = Empty \/ item.count # Nil THEN item.count ELSE 1

\* The quantity of an item: its own, the last one quoted, or one.  An item without
\* a name is passed over, and a quote for one is not kept.
ItemCount(order, item) ==
    LET lines == order.breakup
        quoted == {k \in DOMAIN lines : lines[k].id = item.id /\ lines[k].count > 0}
    IN  IF item.id = Empty \/ item.count # Nil THEN item.count
        ELSE IF quoted = {} THEN 1 ELSE lines[Max(quoted)].count

TestBuyer == "Test Buyer"

DefaultEnd == [gps |-> "12.9716,77.5946", area_code |-> "560001", person |-> Nil]

\* Where to deliver: what the callback says, else the first fulfillment of the
\* select that was sent, else Bengaluru.
InitEnd(end, select) ==
    LET sent == IF select = Nil \/ select.fulfillments = <<>> THEN Nil
                ELSE select.fulfillments[1].end
    IN  Fill(end, IF sent = Nil THEN DefaultEnd
                  ELSE [DefaultEnd EXCEPT !.gps = FirstNonEmpty(<<sent.gps, @>>),
                                          !.area_code = FirstNonEmpty(<<sent.area_code, @>>)])

\* The billing is kept as the name in it.
EnrichInit(order, select) ==
    [order EXCEPT
        !.items = [k \in DOMAIN @ |-> [@[k] EXCEPT !.count = ItemCount(order, order.items[k])]],
        !.billing = IF @ = Nil THEN TestBuyer ELSE @,
        !.fulfillments = [k \in DOMAIN @ |->
                            [@[k] EXCEPT !.end = InitEnd(order.fulfillments[k].end, select)]]]

\* The amount to pay: what the callback says, else the price of the quote.
ConfirmAmount(order) ==
    IF order.amount # Nil THEN order.amount ELSE IF order.price = Nil THEN "0" ELSE order.price

OrderStates == {"Created", "Accepted", "Cancelled"}

\* Whom to hand over to: the one the callback names, else the one who is billed.
ConfirmEnd(end, billing) ==
    LET person == IF billing \in {Nil, Empty} THEN TestBuyer ELSE billing
    IN  IF end = Nil THEN [gps |-> Nil, area_code |-> Nil, person |-> person]
        ELSE Fill(end, [end EXCEPT !.person = person])

EnrichConfirm(order, txn) ==
    [order EXCEPT
        !.id = IF @ \in {Nil, Empty} THEN txn ELSE @,
        !.state = IF @ \in OrderStates THEN @ ELSE "Created",
        !.fulfillments = [k \in DOMAIN @ |->
                            [@[k] EXCEPT !.end = ConfirmEnd(order.fulfillments[k].end, order.billing)]],
        !.amount = ConfirmAmount(order)]

-----------------------------------------------------------------------------
(* Error injection.                                                        *)

WrongCount(rps) == IF rps >= 10 THEN rps \div 10 ELSE 1

ShouldCorrupt(enabled, rps, idx) == enabled /\ rps > 1 /\ idx % rps < WrongCount(rps)

\* corruptForStage: two members are wrong, or the payload is refused.
CorruptForStage(action, order) ==
    CASE action = "select" ->
           IF order.items = <<>> \/ order.provider = Nil THEN Nil
           ELSE [order EXCEPT !.items[1].id = "wrong-item-id", !.provider.id = "wrong-provider-id"]
      [] action = "init" ->
           IF order.items = <<>> \/ order.fulfillments = <<>> THEN Nil
           ELSE [order EXCEPT !.items[1].id = "wrong-item-id",
                              !.fulfillments[1].id = "wrong-fulfillment-id"]
      [] action = "confirm" ->
           IF order.fulfillments = <<>> THEN Nil
           ELSE [order EXCEPT !.fulfillments[1].id = "wrong-fulfillment-id", !.state = "xyz"]

\* What preparePayload makes of an order that is sent.
PreparePayload(action, corrupt, order) ==
    IF corrupt THEN CorruptForStage(action, order) ELSE order
=============================================================================
