------------------------------ MODULE MCPlatform ------------------------------
(***************************************************************************)
(* Small instances of the components that serve requests.  They share no    *)
(* state, so each behaviour has one of them in focus and leaves the others   *)
(* as they begin: the states are those of seven specifications, side by side.  *)
(***************************************************************************)
EXTENDS Sessions, RateLimiter, Community, Catalogue, Requests, Listing, Accounts, TLC

CONSTANTS u1, u2

Titles == <<1, 1, 2>>
Difficulties == <<1, 1, 3>>
Dates == <<1, 1, 1>>
SomeCasts == {{11, 12}, {11, 1}, {1, 2, Admin}}

VARIABLE focus  \* the component of this behaviour

platformVars ==
  <<focus, sessionVars, limiterVars, communityVars, catalogueVars, requestVars, listingVars,
    accountVars>>

\* Everything is as its component begins; out of focus there is one beginning.
Init ==
  /\ focus \in {"sessions", "limiter", "community", "catalogue", "requests", "listing", "accounts"}
  /\ SessionsInit /\ (focus # "sessions" => rare = {"reset"})
  /\ LimiterInit
  /\ CommunityInit /\ (focus # "community" => author = [x \in Posts |-> NoMember])
  /\ CatalogueInit
  /\ focus # "catalogue" => /\ problem[1] = [NoRow EXCEPT !.version = 1, !.slug = "a"]
                            /\ scene = {"read", "write", "state"}
  /\ RequestsInit
  /\ focus # "requests" => /\ exchange.length = 0 /\ ~exchange.declared
                           /\ ~exchange.bearer /\ ~exchange.admin
  /\ ListingInit
  /\ AccountsInit /\ (focus # "accounts" => cast = {11, 12})

Next ==
  \/ /\ focus = "sessions" /\ SessionsNext
     /\ UNCHANGED <<focus, limiterVars, communityVars, catalogueVars, requestVars, listingVars,
                    accountVars>>
  \/ /\ focus = "limiter" /\ LimiterNext
     /\ UNCHANGED <<focus, sessionVars, communityVars, catalogueVars, requestVars, listingVars,
                    accountVars>>
  \/ /\ focus = "community" /\ CommunityNext
     /\ UNCHANGED <<focus, sessionVars, limiterVars, catalogueVars, requestVars, listingVars,
                    accountVars>>
  \/ /\ focus = "catalogue" /\ CatalogueNext
     /\ UNCHANGED <<focus, sessionVars, limiterVars, communityVars, requestVars, listingVars,
                    accountVars>>
  \/ /\ focus = "requests" /\ RequestsNext
     /\ UNCHANGED <<focus, sessionVars, limiterVars, communityVars, catalogueVars, listingVars,
                    accountVars>>
  \/ /\ focus = "listing" /\ ListingNext
     /\ UNCHANGED <<focus, sessionVars, limiterVars, communityVars, catalogueVars, requestVars,
                    accountVars>>
  \/ /\ focus = "accounts" /\ AccountsNext
     /\ UNCHANGED <<focus, sessionVars, limiterVars, communityVars, catalogueVars, requestVars,
                    listingVars>>

Spec == Init /\ [][Next]_platformVars

-----------------------------------------------------------------------------
\* The component in focus keeps its types, the others stand still; slugs stay unique.
PlatformTypeOK ==
  /\ focus = "sessions" => SessionsTypeOK
  /\ focus = "limiter" => LimiterTypeOK
  /\ focus = "community" => CommunityTypeOK
  /\ focus = "catalogue" => CatalogueTypeOK
  /\ focus = "requests" => RequestsTypeOK
  /\ focus = "listing" => ListingTypeOK
  /\ focus = "accounts" => AccountsTypeOK
=============================================================================
