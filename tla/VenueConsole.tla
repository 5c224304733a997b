----------------------------- MODULE VenueConsole ------------------------------
(***************************************************************************)
(* Venues with their name versions, place and map links, and the           *)
(* localities they refer to (console_venues.py, console_geography.py).     *)
(*                                                                         *)
(* A form of the geography editor carries a hash of what it shows; here    *)
(* that is the shown state itself.                                         *)
(***************************************************************************)
EXTENDS Transactions

CONSTANTS
    Venues,      \* venue ids, numbers from 1
    Localities   \* locality ids, numbers from 1

ASSUME VenueConstants ==
    Venues \subseteq Nat \ {0} /\ Localities \subseteq Nat \ {0} /\ IsFiniteSet(Venues) /\ IsFiniteSet(Localities)

VARIABLES
    venue,     \* venue_list with its venue_name_versions and venue_map_links
    locality   \* the identity of each row of geo_localities

venueVars == <<venue, locality>>

\* area 0, address FALSE, point 0 and zone FALSE stand for NULL.
Nowhere == [area |-> 0, address |-> FALSE, point |-> 0, zone |-> FALSE]
NoVenue == [kind |-> "none", place |-> Nowhere, links |-> {}, names |-> <<>>]
NoLocality == "none"

MapProviders == {"google", "apple", "amap"}
PlaceRow == [area : Localities \union {0}, address : BOOLEAN, point : Nat, zone : BOOLEAN]
VenueRow == [kind : {"none", "physical", "online", "undisclosed"}, place : PlaceRow,
             links : SUBSET MapProviders, names : Seq(STRING)]

\* What the schemas of the endpoints accept.
FormKinds == {"save_location", "edit_venue", "save_map_link", "delete_map_link"}
VenueRequest(r) ==
    /\ r.kind \in {"update_venue", "rename_venue"} \union FormKinds => r.venue \in Venues
    /\ r.kind \in {"create_venue", "rename_venue", "edit_venue"} => r.name \in STRING
    /\ r.kind \in {"create_venue", "save_location", "edit_venue"} => r.place \in PlaceRow
    /\ r.kind = "create_venue" => r.venue_kind \in {"physical", "undisclosed"}
    /\ r.kind \in {"update_venue", "edit_venue"} => r.venue_kind \in {"physical", "online", "undisclosed"}
    /\ r.kind = "save_locality" => r.area \in Localities
    /\ r.kind \in {"save_map_link", "delete_map_link"} => r.provider \in MapProviders

VenueInit(s) == venue = s.venues /\ locality = s.localities

VenueLock(v) == Lock("update", <<"venue", v>>)
Registry == Lock("update", <<"venue names">>)
LocalityKeys(mode, area) == IF area = 0 THEN <<>> ELSE <<Lock(mode, <<"locality", area>>)>>

Known(v) == venue[v].kind # "none"
NameTaken(name) == \E v \in Venues : name \in Range(venue[v].names)

\* The check constraint venue_location_scope (V34).
InScope(kind, place) ==
    /\ kind = "online" => place = Nowhere
    /\ kind = "undisclosed" => ~place.address /\ place.point = 0

\* _read: what the state token of a venue covers.
VenueToken(v) ==
    [venue |-> venue[v],
     locality |-> IF venue[v].place.area = 0 THEN NoLocality ELSE locality[venue[v].place.area]]

----------------------------------------------------------------------------
StartCreateVenue(c, req) ==
    /\ req.kind = "create_venue"
    /\ Begin(c, req, "check", <<Registry>>)
    /\ UNCHANGED venueVars

CheckNewVenue(c) ==
    LET req == txn[c].req
    IN /\ Ready(c, {"create_venue"}, "check")
       /\ ~NameTaken(req.name)
       /\ Continue(c, "store", <<>>, LocalityKeys("share", req.place.area))
       /\ UNCHANGED venueVars

InsertVenue(c) ==
    LET req == txn[c].req
        free == {v \in Venues : ~Known(v)}
    IN /\ Ready(c, {"create_venue"}, "store")
       /\ free # {}
       /\ req.place.area # 0 => locality[req.place.area] # NoLocality
       /\ venue' = [venue EXCEPT ![InOrder(free)[1]] =
                       [kind |-> req.venue_kind, place |-> req.place,
                        links |-> IF req.google = "set" THEN {"google"} ELSE {}, names |-> <<req.name>>]]
       /\ Finish(c)
       /\ UNCHANGED locality

StartUpdateVenue(c, req) ==
    /\ req.kind = "update_venue"
    /\ Begin(c, req, "store", <<VenueLock(req.venue)>>)
    /\ UNCHANGED venueVars

StoreVenueKind(c) ==
    LET req == txn[c].req
        v == req.venue
    IN /\ Ready(c, {"update_venue"}, "store")
       /\ Known(v)
       /\ IF req.venue_kind = "online" THEN venue[v].place = Nowhere ELSE venue[v].place.zone
       /\ InScope(req.venue_kind, venue[v].place)
       /\ venue' = [venue EXCEPT ![v].kind = req.venue_kind]
       /\ Finish(c)
       /\ UNCHANGED locality

----------------------------------------------------------------------------
\* _create_name_version, which the rename and the venue editor share.
Renames(req) == req.kind = "rename_venue" \/ (req.kind = "edit_venue" /\ req.name # "none")

\* A mutant: the rename locks the names before the venue.
StartRenameWithRegistry(c, req) ==
    /\ req.kind = "rename_venue"
    /\ Begin(c, req, "registry", <<Registry, VenueLock(req.venue)>>)
    /\ UNCHANGED venueVars

StartRename(c, req) ==
    /\ req.kind = "rename_venue"
    /\ Begin(c, req, "registry", <<VenueLock(req.venue)>>)
    /\ UNCHANGED venueVars

\* A mutant: a rename does not take the advisory lock of the names.
LockNoRegistry(c) ==
    /\ Ready(c, {"rename_venue", "edit_venue"}, "registry")
    /\ Known(txn[c].req.venue)
    /\ Continue(c, "name", txn[c].seen, <<>>)
    /\ UNCHANGED venueVars

LockNameRegistry(c) ==
    /\ Ready(c, {"rename_venue", "edit_venue"}, "registry")
    /\ Known(txn[c].req.venue)
    /\ Continue(c, "name", txn[c].seen, <<Registry>>)
    /\ UNCHANGED venueVars

CheckNewName(c) ==
    LET v == txn[c].req.venue
    IN /\ Ready(c, {"rename_venue", "edit_venue"}, "name")
       /\ ~NameTaken(txn[c].req.name)
       /\ Continue(c, "store", txn[c].seen, <<Lock("update", <<"venue name", v, Len(venue[v].names)>>)>>)
       /\ UNCHANGED venueVars

StoreRename(c) ==
    LET req == txn[c].req
    IN /\ Ready(c, {"rename_venue"}, "store")
       /\ venue' = [venue EXCEPT ![req.venue].names = Append(@, req.name)]
       /\ Finish(c)
       /\ UNCHANGED locality

----------------------------------------------------------------------------
\* The editor opens the form; the transaction starts when it is sent.
OpenVenueForm(c, req) ==
    /\ req.kind \in FormKinds \union {"save_locality"}
    /\ Begin(c, req, "form", <<>>)
    /\ UNCHANGED venueVars

\* A mutant: the state token is compared before the venue is locked.
SendVenueFormUnlocked(c) ==
    /\ Ready(c, FormKinds, "form")
    /\ Known(txn[c].req.venue)
    /\ Continue(c, "validate", VenueToken(txn[c].req.venue), <<>>)
    /\ UNCHANGED venueVars

SendVenueForm(c) ==
    /\ Ready(c, FormKinds, "form")
    /\ Known(txn[c].req.venue)
    /\ Continue(c, "validate", VenueToken(txn[c].req.venue), <<VenueLock(txn[c].req.venue)>>)
    /\ UNCHANGED venueVars

\* _validate; the locality is read without a lock, and the foreign key check of
\* the UPDATE waits for whoever edits it.  An edited venue is renamed after it
\* is moved.
PlaceAllowed(old, kind, place) ==
    /\ InScope(kind, place)
    /\ place.area # 0 => locality[place.area] # NoLocality
    /\ old.area # 0 => place.area # 0
    /\ kind = "physical" => place.address
    /\ kind # "online" => place.zone

ValidatePlace(c) ==
    LET req == txn[c].req
        v == req.venue
        kind == IF req.kind = "edit_venue" THEN req.venue_kind ELSE venue[v].kind
    IN /\ Ready(c, {"save_location", "edit_venue"}, "validate")
       /\ txn[c].seen = VenueToken(v)
       /\ PlaceAllowed(venue[v].place, kind, req.place)
       /\ Continue(c, IF Renames(req) THEN "registry" ELSE "store", [form |-> txn[c].seen, kind |-> kind],
                   IF req.place.area = venue[v].place.area THEN <<>>
                   ELSE LocalityKeys("key", req.place.area))
       /\ UNCHANGED venueVars

\* _save_location; the Google link changes only with a field of the request.
StorePlace(c) ==
    LET req == txn[c].req
    IN /\ Ready(c, {"save_location", "edit_venue"}, "store")
       /\ venue' = [venue EXCEPT ![req.venue] =
                       [kind |-> txn[c].seen.kind, place |-> req.place,
                        links |-> CASE req.google = "keep" -> @.links
                                    [] req.google = "set"  -> @.links \union {"google"}
                                    [] OTHER               -> @.links \ {"google"},
                        names |-> IF Renames(req) THEN Append(@.names, req.name) ELSE @.names]]
       /\ Finish(c)
       /\ UNCHANGED locality

SaveMapLink(c) ==
    LET req == txn[c].req
        v == req.venue
    IN /\ Ready(c, {"save_map_link"}, "validate")
       /\ txn[c].seen = VenueToken(v)
       /\ venue[v].place.point # 0 /\ venue[v].kind = "physical"
       /\ venue' = [venue EXCEPT ![v].links = @ \union {req.provider}]
       /\ Finish(c)
       /\ UNCHANGED locality

DeleteMapLink(c) ==
    LET req == txn[c].req
        v == req.venue
    IN /\ Ready(c, {"delete_map_link"}, "validate")
       /\ txn[c].seen = VenueToken(v)
       /\ venue' = [venue EXCEPT ![v].links = @ \ {req.provider}]
       /\ Finish(c)
       /\ UNCHANGED locality

----------------------------------------------------------------------------
\* The unique indexes of V33 on what identifies a locality.
Identity(name) == Lock("update", <<"identity", name>>)
IdentityTaken(name, a) == \E other \in Localities \ {a} : locality[other] = name

StartCreateLocality(c, req) ==
    /\ req.kind = "create_locality"
    /\ Begin(c, req, "check", <<>>)
    /\ UNCHANGED venueVars

CheckNewLocality(c) ==
    LET name == txn[c].req.name
    IN /\ Ready(c, {"create_locality"}, "check")
       /\ ~IdentityTaken(name, 0)
       /\ Continue(c, "store", <<>>, <<Identity(name)>>)
       /\ UNCHANGED venueVars

InsertLocality(c) ==
    LET name == txn[c].req.name
        free == {a \in Localities : locality[a] = NoLocality}
    IN /\ Ready(c, {"create_locality"}, "store")
       /\ free # {} /\ ~IdentityTaken(name, 0)
       /\ locality' = [locality EXCEPT ![InOrder(free)[1]] = name]
       /\ Finish(c)
       /\ UNCHANGED venue

SendLocalityForm(c) ==
    LET a == txn[c].req.area
    IN /\ Ready(c, {"save_locality"}, "form")
       /\ locality[a] # NoLocality
       /\ Continue(c, "validate", [name |-> locality[a]], <<Lock("update", <<"locality", a>>)>>)
       /\ UNCHANGED venueVars

ValidateLocality(c) ==
    LET req == txn[c].req
    IN /\ Ready(c, {"save_locality"}, "validate")
       /\ txn[c].seen.name = locality[req.area]
       /\ ~IdentityTaken(req.name, req.area)
       /\ IF req.name = locality[req.area]
          THEN Finish(c)
          ELSE Continue(c, "store", txn[c].seen, <<Identity(locality[req.area]), Identity(req.name)>>)
       /\ UNCHANGED venueVars

StoreLocality(c) ==
    LET req == txn[c].req
    IN /\ Ready(c, {"save_locality"}, "store")
       /\ ~IdentityTaken(req.name, req.area)
       /\ locality' = [locality EXCEPT ![req.area] = req.name]
       /\ Finish(c)
       /\ UNCHANGED venue

VenueStart(c, req) ==
    \/ StartCreateVenue(c, req) \/ StartUpdateVenue(c, req) \/ StartRename(c, req)
    \/ OpenVenueForm(c, req) \/ StartCreateLocality(c, req)

VenueStep(c) ==
    \/ CheckNewVenue(c) \/ InsertVenue(c) \/ StoreVenueKind(c)
    \/ LockNameRegistry(c) \/ CheckNewName(c) \/ StoreRename(c)
    \/ SendVenueForm(c) \/ ValidatePlace(c) \/ StorePlace(c) \/ SaveMapLink(c) \/ DeleteMapLink(c)
    \/ CheckNewLocality(c) \/ InsertLocality(c)
    \/ SendLocalityForm(c) \/ ValidateLocality(c) \/ StoreLocality(c)
===============================================================================
