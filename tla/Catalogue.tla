----------------------------- MODULE Catalogue -----------------------------
(***************************************************************************)
(* The catalogue of models: the ids a call may name, what serves them, and   *)
(* what staff do to both (api/models.py, api/admin/providers.py,             *)
(* services/models_catalog.py, the resolution and the listing of             *)
(* api/proxy.py, and the start of _do_dispatch).                             *)
(*                                                                          *)
(* An id is <<slug, name>>: slug is that of a provider which may serve it    *)
(* directly (passthrough), or Bare for an id without a slash.  The same id   *)
(* may have a row of its own (ExposedModel), with the role groups it is for  *)
(* and a route.  An edit is one step: it commits before anybody else reads.  *)
(* Cleaning, which reads twice before it deletes, is three; one at a time.   *)
(* A provider is its id, which a new one may have again.  Metadata,          *)
(* categories and models.dev are left out.                                  *)
(***************************************************************************)
EXTENDS Naturals, FiniteSets

CONSTANTS
    Provider, Slug, Name, Group, Caller,
    Bare, NoProvider,
    Staff,         \* callers who are moderators
    GroupsOf,      \* GroupsOf[c]: role groups of c
    TokenAllows,   \* TokenAllows[c]: ids that c's token permits
    Named,         \* ids staff edit
    Forms,         \* Forms[p]: what staff may enter for p
    Routes         \* routes staff may give a model

Id == (Slug \cup {Bare}) \X Name
\* What a form says of a provider: lists is the passthrough whitelist.
Form == [enabled : BOOLEAN, passes : BOOLEAN, lists : SUBSET Name]

Upstream == [of : Provider \cup {NoProvider}, on : BOOLEAN]
Model == [there : BOOLEAN, enabled : BOOLEAN, groups : SUBSET Group, route : SUBSET Upstream]

ASSUME CatalogueConstants ==
    /\ Bare \notin Slug /\ NoProvider \notin Provider
    /\ Staff \subseteq Caller
    /\ GroupsOf \in [Caller -> SUBSET Group]
    /\ TokenAllows \in [Caller -> SUBSET Id]
    /\ Named \subseteq Id
    /\ \A p \in Provider : Forms[p] \subseteq Form
    /\ Routes \subseteq SUBSET [of : Provider, on : BOOLEAN]
    /\ Cardinality(Slug) >= Cardinality(Provider)

VARIABLES
    provider,   \* provider[p]: p's row
    model,      \* model[id]: id's row and its route
    clean,      \* how far a cleaning is, and what it goes by
    enforced    \* the database enforces foreign keys (default SQLite does not)

catalogueVars == <<provider, model, clean, enforced>>

NoRow == [there |-> FALSE, enabled |-> FALSE, groups |-> {}, route |-> {}]

\* enabled and passthrough: what was read of the providers; targets: the rows to be
\* deleted; changed: the ids of which anything has been edited since.
NotCleaning == [stage |-> "no", enabled |-> {}, passthrough |-> {}, targets |-> {}, changed |-> {}]

There == {p \in Provider : provider[p].there}

CatalogueInit ==
    /\ provider = [p \in Provider |-> [there |-> FALSE, enabled |-> FALSE, passes |-> FALSE,
                                       lists |-> {}, slug |-> Bare]]
    /\ model = [id \in Id |-> NoRow]
    /\ clean = NotCleaning
    /\ enforced \in BOOLEAN

-----------------------------------------------------------------------------
(* What a call meets.                                                       *)

Passing(id) == {p \in There : provider[p].slug = id[1] /\ provider[p].passes}
Lists(p, id) == id[2] \in provider[p].lists

\* passthrough_model_ids of the enabled providers.
Direct(id) == \E p \in Passing(id) : provider[p].enabled /\ Lists(p, id)

\* _resolve_public_model: an enabled passthrough provider decides alone.
Resolves(id) ==
    IF \E p \in Passing(id) : provider[p].enabled
    THEN Direct(id)
    ELSE model[id].there /\ model[id].enabled

\* user_can_access_model and model_allowed_for_groups.
Granted(c, id) ==
    \/ c \in Staff
    \/ model[id].there /\ model[id].groups \cap GroupsOf[c] # {}

\* _handle up to dispatch, the rate limits apart.
MayCall(c, id) == id \in TokenAllows[c] /\ Resolves(id) /\ Granted(c, id)

\* _do_dispatch: the whitelist of the provider, enabled or not, before the route;
\* rank drops the upstreams that are off.
Candidates(id) ==
    IF \E p \in Passing(id) : Lists(p, id)
    THEN {p \in Passing(id) : provider[p].enabled}
    ELSE {p \in There : provider[p].enabled /\ [of |-> p, on |-> TRUE] \in model[id].route}

IsServed(c, id) == MayCall(c, id) /\ Candidates(id) # {}

-----------------------------------------------------------------------------
(* What a caller is shown.                                                  *)

\* _advertised_models: first the rows, then the whitelists.
Advertises(c, id) ==
    /\ id \in TokenAllows[c]
    /\ Granted(c, id)
    /\ \/ model[id].there /\ model[id].enabled
       \/ Direct(id) /\ (model[id].there => model[id].enabled)

\* list_models of the dashboard: a whitelisted id takes over the row's place.
IsListed(c, id) ==
    IF model[id].there THEN c \in Staff \/ model[id].enabled ELSE Direct(id)

-----------------------------------------------------------------------------
(* An edit while a cleaning is under way.                                   *)

Edited(ids) ==
    /\ clean' = IF clean.stage = "no" THEN clean ELSE [clean EXCEPT !.changed = @ \cup ids]
    /\ UNCHANGED enforced

\* Rows that are deleted are not found again; SQLite may give a new row the old id.
Removed(ids, changed) ==
    /\ \E targets \in {clean.targets \ ids} \cup IF enforced THEN {} ELSE {clean.targets} :
          clean' = IF clean.stage = "no" THEN clean
                   ELSE [clean EXCEPT !.targets = targets, !.changed = @ \cup changed]
    /\ UNCHANGED enforced

-----------------------------------------------------------------------------
(* Staff: providers.                                                        *)

Taken(except) == {provider[p].slug : p \in There \ {except}}

\* _unique_slug: the wanted one, or another when it is taken.
GivenSlug(p, wanted, given) ==
    /\ given \notin Taken(p)
    /\ wanted \notin Taken(p) => given = wanted

PutProvider(p, form, slug) ==
    provider' = [provider EXCEPT ![p] = [there |-> TRUE, enabled |-> form.enabled,
                                         passes |-> form.passes, lists |-> form.lists,
                                         slug |-> slug]]

CreateProvider(p, form, wanted) ==
    /\ p \notin There
    /\ \E given \in Slug : GivenSlug(p, wanted, given) /\ PutProvider(p, form, given)
    /\ UNCHANGED model
    /\ Edited(Id)

UpdateProvider(p, form, wanted) ==
    /\ p \in There
    /\ \E given \in Slug : GivenSlug(p, wanted, given) /\ PutProvider(p, form, given)
    /\ UNCHANGED model
    /\ Edited(Id)

\* The upstreams stay in their routes, without a provider (ondelete SET NULL) where
\* foreign keys are enforced, and naming one that is gone where they are not.
DeleteProvider(p) ==
    /\ p \in There
    /\ provider' = [provider EXCEPT ![p] = [there |-> FALSE, enabled |-> FALSE, passes |-> FALSE,
                                            lists |-> {}, slug |-> Bare]]
    /\ model' = IF enforced
                THEN [id \in Id |->
                        [model[id] EXCEPT !.route =
                           {[u EXCEPT !.of = IF @ = p THEN NoProvider ELSE @] : u \in @}]]
                ELSE model
    /\ Edited(Id)

-----------------------------------------------------------------------------
(* Staff: models.                                                           *)

\* _get_or_create_entry: an enabled row nobody but moderators may call.
Entry(id) == IF model[id].there THEN model[id] ELSE [NoRow EXCEPT !.there = TRUE, !.enabled = TRUE]

\* upsert_model, and batch_update_models for several.
PutModels(ids, enabled, groups) ==
    /\ model' = [id \in Id |-> IF id \in ids
                               THEN [Entry(id) EXCEPT !.enabled = enabled, !.groups = groups]
                               ELSE model[id]]
    /\ Edited(ids)
    /\ UNCHANGED provider

\* update_route.
PutRoute(id, route) ==
    /\ model[id].there
    /\ \A u \in route : u.of \in There
    /\ model' = [model EXCEPT ![id].route = route]
    /\ Edited({id})
    /\ UNCHANGED provider

DeleteModel(id) ==
    /\ model[id].there
    /\ model' = [model EXCEPT ![id] = NoRow]
    /\ Removed({id}, {id})
    /\ UNCHANGED provider

\* The whitelists without ids.
Stripped(ids) ==
    [p \in Provider |-> IF provider[p].passes
                        THEN [provider[p] EXCEPT !.lists = {n \in @ : <<provider[p].slug, n>> \notin ids}]
                        ELSE provider[p]]

\* delete_passthrough_model.
DeletePassthrough(id) ==
    /\ Passing(id) # {}
    /\ provider' = Stripped({id})
    /\ model' = [model EXCEPT ![id] = NoRow]
    /\ Removed({id}, Id)

\* batch_delete_models.
BatchDelete(ids) ==
    /\ provider' = Stripped(ids)
    /\ model' = [id \in Id |-> IF id \in ids THEN NoRow ELSE model[id]]
    /\ Removed(ids, Id)

\* delete_provider_group.
DeleteProviderGroup(p) ==
    /\ p \in There /\ provider[p].passes
    /\ provider' = [provider EXCEPT ![p].passes = FALSE, ![p].lists = {}]
    /\ model' = [id \in Id |-> IF id[1] = provider[p].slug THEN NoRow ELSE model[id]]
    /\ Removed({id \in Id : id[1] = provider[p].slug}, Id)

EnabledProviders == {p \in There : provider[p].enabled}

\* is_unserved.
Unserved(id, providers) == ~\E u \in model[id].route : u.on /\ u.of \in providers

\* Mutated form: a model is judged by its route alone.
CleanTargetsByRoute == {id \in Id : model[id].there /\ Unserved(id, clean.enabled)}

CleanTargets ==
    {id \in Id : model[id].there /\ Unserved(id, clean.enabled) /\ id \notin clean.passthrough}

\* clean_unserved: it reads the providers, then the models, whose rows it deletes when
\* it flushes.
CleanReads ==
    /\ clean.stage = "no"
    /\ clean' = [NotCleaning EXCEPT !.stage = "read", !.enabled = EnabledProviders,
                                    !.passthrough = {id \in Id : Direct(id)}]
    /\ UNCHANGED <<provider, model, enforced>>

CleanJudges ==
    /\ clean.stage = "read"
    /\ clean' = IF CleanTargets = {} THEN NotCleaning
                ELSE [clean EXCEPT !.stage = "judged", !.targets = CleanTargets]
    /\ UNCHANGED <<provider, model, enforced>>

CleanDeletes ==
    /\ clean.stage = "judged"
    /\ model' = [id \in Id |-> IF id \in clean.targets THEN NoRow ELSE model[id]]
    /\ clean' = NotCleaning
    /\ UNCHANGED <<provider, enforced>>

-----------------------------------------------------------------------------
ProviderEdit ==
    \E p \in Provider :
        \/ \E form \in Forms[p], wanted \in Slug : CreateProvider(p, form, wanted)
                                               \/ UpdateProvider(p, form, wanted)
        \/ DeleteProvider(p)
        \/ DeleteProviderGroup(p)

Cleaning == CleanReads \/ CleanJudges \/ CleanDeletes

ModelEdit ==
    \/ \E ids \in {{id} : id \in Named} \cup {Named}, enabled \in BOOLEAN, groups \in SUBSET Group :
          PutModels(ids, enabled, groups)
    \/ \E id \in Named : \/ \E route \in Routes : PutRoute(id, route)
                         \/ DeleteModel(id)
                         \/ DeletePassthrough(id)
    \/ BatchDelete(Named)

CatalogueNext == ProviderEdit \/ ModelEdit \/ Cleaning

CatalogueSpec == CatalogueInit /\ [][CatalogueNext]_catalogueVars

-----------------------------------------------------------------------------
\* What is removed by id is gone: after a passthrough model, a provider's group or
\* a batch has been deleted, nobody's calls of those ids are served, by a whitelist
\* or by a row that was left behind.  And cleaning takes nothing away from anybody
\* that was not edited while it was under way: every other id served to a caller
\* before is served to that caller after (clean_unserved judges by routes, calls are
\* served by whitelists too, and granted by the row).
Gone(ids) == \A c \in Caller, id \in ids : ~IsServed(c, id)

DeletedIsGone ==
    /\ \A id \in Named : DeletePassthrough(id) => Gone({id})'
    /\ \A p \in Provider : DeleteProviderGroup(p) => \A id \in Id : id[1] = provider[p].slug => Gone({id})'
    /\ BatchDelete(Named) => Gone(Named)'

CleanLosesNothing ==
    CleanDeletes =>
        \A c \in Caller, id \in Id \ clean.changed : IsServed(c, id) => IsServed(c, id)'

\* Nor is a member ever shown an id that is hidden, or advertised one of another
\* role group.
HiddenIsHidden ==
    \A c \in Caller \ Staff, id \in Id :
        /\ Advertises(c, id) => Granted(c, id)
        /\ Advertises(c, id) \/ IsListed(c, id) => (model[id].there => model[id].enabled)

CatalogueKeepsItsWord == []HiddenIsHidden /\ [][DeletedIsGone /\ CleanLosesNothing]_catalogueVars

\* sync_models: "the exact set of models that token may call".
ExactlyCallable == \A c \in Caller, id \in Id : Advertises(c, id) <=> MayCall(c, id)
=============================================================================
