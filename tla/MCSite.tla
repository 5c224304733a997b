-------------------------------- MODULE MCSite --------------------------------
(* Parts of one browser tab, and of what the server answers it, that share no
   state; each behaviour exercises the part its scenario names. *)
EXTENDS ConsoleHistory, RequestCache, CardLists, ConsoleEditor, PublicLists, TourStatistics, AuthSession

VARIABLE scenario

browserVars == <<historyVars, cacheVars, cardVars, editorVars>>
apiVars == <<listVars, tourVars, authVars>>
siteVars == <<scenario, browserVars, apiVars>>

MCListings ==
    [k \in {"all", "filtered"} |->
        IF k = "all" THEN 0 :> <<1, 2, 3>> @@ 1 :> <<4, 1, 2, 3>>
                     ELSE 0 :> <<2, 5>> @@ 1 :> <<5>>]

MCMaxStops == [named \in BOOLEAN |-> IF named THEN 2 ELSE 3]

(* The parts of the other scenarios stay as they are. *)
SiteInit ==
    /\ scenario \in {"history", "caches", "lives", "pagers", "setlists", "editor", "lists", "tours", "sessions"}
    /\ HistoryInit /\ CacheInit /\ CardsInit /\ EditorInit /\ AuthInit
    /\ \/ scenario = "lists" /\ ListInit
       \/ /\ scenario # "lists" /\ walk = NoWalk
          /\ filter = CHOOSE f \in Filters : TRUE
          /\ catalog = CHOOSE c \in Catalogs(filter) : TRUE
    /\ \/ scenario = "tours" /\ TourInit
       \/ /\ scenario # "tours" /\ panel = NewPanel
          /\ tour = [stops |-> <<>>, explicit |-> FALSE]

(* Where both exceptions of DraftsLeftByConsent apply nothing is asked of the
   history any more. *)
StillAsked == ~mistaken \/ backs = 0

SiteNext ==
    /\ UNCHANGED scenario
    /\ \/ /\ scenario = "history" /\ StillAsked /\ HistoryNext /\ UNCHANGED <<cacheVars, cardVars, editorVars, apiVars>>
       \/ /\ scenario = "caches" /\ CacheNext /\ UNCHANGED <<historyVars, cardVars, editorVars, apiVars>>
       \/ /\ scenario = "lives" /\ LivesListNext /\ UNCHANGED <<historyVars, cacheVars, editorVars, apiVars>>
       \/ /\ scenario = "pagers" /\ PagersNext /\ UNCHANGED <<historyVars, cacheVars, editorVars, apiVars>>
       \/ /\ scenario = "setlists" /\ SetlistsNext /\ UNCHANGED <<historyVars, cacheVars, cardVars, apiVars>>
       \/ /\ scenario = "editor" /\ LivesNext /\ UNCHANGED <<historyVars, cacheVars, cardVars, apiVars>>
       \/ /\ scenario = "lists" /\ ListNext /\ UNCHANGED <<browserVars, tourVars, authVars>>
       \/ /\ scenario = "tours" /\ TourNext /\ UNCHANGED <<browserVars, listVars, authVars>>
       \/ /\ scenario = "sessions" /\ AuthNext /\ UNCHANGED <<browserVars, listVars, tourVars>>

SiteSpec == SiteInit /\ [][SiteNext]_siteVars
===============================================================================
