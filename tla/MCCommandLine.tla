---------------------------- MODULE MCCommandLine ---------------------------
(***************************************************************************)
(* An instance of CommandLine: an application of a module and a submodule, *)
(* named in the configuration as a string or as a dictionary, and a second *)
(* bundle that is an entry point.                                          *)
(***************************************************************************)
EXTENDS CommandLine

CONSTANTS unnamed, noLevel

app == "odss.app"
web == "odss.web"

Plain(name) == [name |-> name, location |-> unnamed, startlevel |-> noLevel]
Dict(name, location, level) == [name |-> name, location |-> location, startlevel |-> level]

MCEntries == "web" :> web

MCConfigs == {<<Plain(app), Plain("web"), Dict("web", unnamed, 1)>>, <<Plain("web"), Plain(app)>>,
              <<Dict("web", "web", 1), Dict("web", web, 1)>>,
              <<Plain(app), Dict("web", unnamed, unnamed)>>, <<Dict(app, unnamed, 0)>>}

MCModules == <<"odss.app", "odss.app.views", "odss.web">>

MCStems == "odss.app" :> {app} @@ "odss.app.views" :> {app} @@ "odss.web" :> {web}
=============================================================================
