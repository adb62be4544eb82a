------------------------------ MODULE MCServices ------------------------------
(***************************************************************************)
(* The small services side by side.  They share nothing but the clock, so  *)
(* one of them moves in a behaviour and the others stay where they began.  *)
(***************************************************************************)
EXTENDS RateLimit, ApiKey, Heartbeat, Sitemap, CacheClear, Inbox, SignIn, LintSQL

CONSTANTS q1, q2, p1, p2, p3

VARIABLE moving

ThreeRules == <<"minute", "hour", "day">>
Windows == [minute |-> 1, hour |-> 1, day |-> 2]
Limits == "user" :> [minute |-> 2, hour |-> 0, day |-> 1]
SiteKinds == <<"static", "anime">>

Ann == "ann" :> 1
AnnsMail == "ann@x" :> 1

\* The linted file: constants "head" and "query", the second built from the
\* first, in both orders or with "head" known at run time only.
Lit == [kind |-> "lit", parts |-> <<"lit">>]
Name(n) == [kind |-> "name", parts |-> <<n>>]
Chain(parts) == [kind |-> "concat", parts |-> parts]
Decl(n, e) == [name |-> n, value |-> e]

SomeDecls ==
    LET query == Decl("query", Chain(<<"head", "lit">>)) IN
    {<<Decl("head", Lit), query>>, <<query, Decl("head", Lit)>>, <<Decl("head", Name("env")), query>>}

Exec(query, values) == [method |-> "Exec", query |-> query, values |-> values]
SomeCalls ==
    {[method |-> "Get", query |-> Lit, values |-> <<>>],
     Exec(Lit, <<>>), Exec(Name("query"), <<>>),
     Exec(Chain(<<"lit", "query">>), <<>>), Exec(Chain(<<"lit", "arg">>), <<>>),
     Exec([kind |-> "sprint", parts |-> <<"lit", "arg">>], <<>>),
     Exec(Lit, <<Chain(<<"lit", "arg">>)>>)}
LineOf == [first |-> 2, second |-> 3]
FunOf == [first |-> "f", second |-> "f"]

rateOwn == <<backend, counters, call, hits, passes>>
beatOwn == <<beats, proc, wire>>
siteOwn == <<content, lastId, xml, run, outcome>>
cacheOwn == <<medium, blobs, source, fetch, clear, writes>>

Init ==
    /\ moving \in {"ratelimit", "apikey", "heartbeat", "sitemap", "cache", "inbox", "signin", "lint"}
    /\ RateInit /\ KeyInit /\ HeartbeatInit /\ SitemapInit /\ CacheInit
    /\ InboxInit /\ SignInInit /\ LintInit
    /\ moving # "ratelimit" => backend = "memory"
    /\ moving # "cache" => medium = "memory"
    /\ moving # "signin" => enabled

Next ==
    /\ UNCHANGED moving
    /\ moving # "ratelimit" => UNCHANGED rateOwn
    /\ moving # "apikey" => UNCHANGED keyVars
    /\ moving # "heartbeat" => UNCHANGED beatOwn
    /\ moving # "sitemap" => UNCHANGED siteOwn
    /\ moving # "cache" => UNCHANGED cacheOwn
    /\ moving # "inbox" => UNCHANGED inboxVars
    /\ moving # "signin" => UNCHANGED signVars
    /\ moving # "lint" => UNCHANGED lintVars
    /\ moving \in {"apikey", "inbox", "signin", "lint"} => UNCHANGED clock
    /\ \/ moving = "ratelimit" /\ RateNext
       \/ moving = "apikey" /\ KeyNext
       \/ moving = "heartbeat" /\ HeartbeatNext
       \/ moving = "sitemap" /\ SitemapNext
       \/ moving = "cache" /\ CacheNext
       \/ moving = "inbox" /\ InboxNext
       \/ moving = "signin" /\ SignInNext
       \/ moving = "lint" /\ LintNext

Spec == Init /\ [][Next]_<<moving, clock, rateOwn, keyVars, beatOwn, siteOwn, cacheOwn,
                          inboxVars, signVars, lintVars>>

\* Every service's variables have their types.
TypeOK ==
    /\ RateTypeOK /\ KeyTypeOK /\ HeartbeatTypeOK /\ SitemapTypeOK /\ CacheTypeOK
    /\ InboxTypeOK /\ SignInTypeOK /\ LintTypeOK
=============================================================================
