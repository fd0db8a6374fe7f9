---------------------------- MODULE MCHttpServer ----------------------------
(* Two configurations, two scopes, two tasks; two middlewares and two route *)
(* services that share the name of a route.                                 *)
EXTENDS HttpServer, TLC

MCMiddlewares == {<<-50, 4>>, <<-90, 5>>}
MCRoutes == {<<-50, 6>>, <<-50, 7>>}
MCScopeOf == <<-50, 4>> :> NoScope @@ <<-90, 5>> :> NoScope
             @@ <<-50, 6>> :> NoScope @@ <<-50, 7>> :> "api"
MCViews == <<-50, 6>> :> <<"list", "item">> @@ <<-50, 7>> :> <<"own", "item">>
=============================================================================
