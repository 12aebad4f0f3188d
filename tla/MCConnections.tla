---------------------------- MODULE MCConnections ----------------------------
(***************************************************************************)
(* Small instances of the connector catalogue, the Connection API and the  *)
(* executors of Connection tests.  A behaviour has one focus, chosen at    *)
(* the start: which requests are sent and which parts take steps.  The     *)
(* foci share the state variables and the properties, and none of them     *)
(* pays for the interleavings of the others.                               *)
(***************************************************************************)
EXTENDS ConnectionTester, MCCatalogue

VARIABLE focus          \* "catalog", "changes", "listing" or "tests"

allVars == <<testerVars, serviceVars, connectionVars, focus, catalogVars>>

MCKey == [url |-> 1, user |-> 2, password |-> 3, host |-> 4, database |-> 5, port |-> 6, ssl |-> 7]
MCKinds == (1 :> "generic" @@ 2 :> "postgresql" @@ 4 :> "mysql")

---------------------------------------------------------------------------
(* Two inventories; the first one from another build, one that gives a      *)
(* known artifact another content, and three that do not validate.          *)
MCInventories ==
    {Old, Newer, Inventory(1, "b3"), Inventory(3, "b1"), Inventory(4, "b1"), Inventory(5, "b1"),
     [Old EXCEPT !.descriptors = Newer.descriptors]}
MCFilters == {<<<<>>, <<>>>>, <<<<1>>, <<5>>>>, <<<<2, 1>>, <<>>>>}

---------------------------------------------------------------------------
(* Requests.  Addresses are 1 to 4: 2 is private, 3 serves the cluster and  *)
(* 4 is never dialled.                                                      *)

NewUrl == <<Setting(10, Text("x")), Setting(1, JdbcUrl("mysql", "h2"))>>

ChangeRequests ==
    {Request("CREATE", 0, 1), [Request("CREATE", 0, 2) EXCEPT !.display = "d2"],
     By("bob", [Request("UPDATE", 1, 1) EXCEPT !.display = "d2"]),
     By("bob", [Request("UPDATE", 2, 2) EXCEPT !.settings = NewUrl]),
     [Request("ROTATE", 1, 1) EXCEPT !.secret = Secret("s2", <<3>>)],
     [Request("ROTATE", 2, 1) EXCEPT !.secret = Secret("s2", <<3, 9>>)],
     Request("ENABLE", 1, 1), Request("DISABLE", 2, 1),
     Request("DELETE", 1, 1), By("bob", Request("TEST", 1, 1))}

PostgresRequest(name) ==
    [Request("CREATE", 0, name) EXCEPT !.name = name, !.connector = 2,
        !.settings = <<Setting(2, Text("u")), Setting(4, Text("h1")), Setting(5, Text("d")),
                       Setting(6, Value("5432", {"integer"}, 5432, {})),
                       Setting(7, Text("require"))>>]
ListRequests ==
    {PostgresRequest(1), PostgresRequest(3), By("bob", PostgresRequest(2))} \cup
    {[Request(kind, 1, 1) EXCEPT !.name = 2] : kind \in {"ENABLE", "DELETE"}}

TestRequests == {Request("CREATE", 0, 1), Request("TEST", 1, 1)}

MCGranted ==
    [alice |-> {"CREATE", "UPDATE", "ROTATE", "DISABLE", "DELETE", "TEST"},
     bob |-> {"CREATE", "UPDATE", "TEST"}]

Network(dns, reachable, answer, secret) ==
    [dns |-> dns, reachable |-> reachable, server |-> answer, secret |-> secret]
Resolves(h1, h2) == ("h1" :> h1 @@ "h2" :> h2)
MCEnvironments ==
    {Network(Resolves({1}, {2}), {1, 2}, "ok", (3 :> Text("pw"))),
     Network(Resolves({1, 3}, {2}), {1, 2, 3}, "ok", (3 :> Text("pw"))),
     Network(Resolves({1, 2}, {4}), {2}, "credentials", (3 :> Text("pw"))),
     Network(("h2" :> {1}), {1}, "tls", <<>>)}

---------------------------------------------------------------------------
RequestsOf == [catalog |-> {}, changes |-> ChangeRequests, listing |-> ListRequests,
               tests |-> {q \in TestRequests : q.kind = "TEST" => now + TestRetention <= MaxTime}]

(* Outside the catalogue's own focus the old inventory is active; while     *)
(* Connections change, a second server is about to activate the new one.    *)
Init ==
    /\ ConnectionInit
    /\ focus \in {"catalog", "changes", "listing", "tests"}
    /\ \/ focus = "catalog" /\ CatalogInit
       \/ /\ focus # "catalog"
          /\ descriptorRows = {Descriptors[1], Descriptors[4]} /\ activation = {Old.revision}
          /\ inventoryRows = {[inventory |-> Old, at |-> 1]}
          /\ server = [s \in Servers |->
                         IF s = "a1" THEN Serving ELSE IF focus # "changes" THEN Down
                         ELSE [pc |-> "reconcile", inventory |-> {Newer}, old |-> {Old.revision}, at |-> 2]]
          /\ starts = 2 /\ listing = NoListing
          /\ catalogAudit = {[old |-> {}, new |-> Old.revision, outcome |-> "CHANGED"]}

Next ==
    /\ UNCHANGED focus
    /\ \/ /\ focus = "catalog" /\ CatalogNext
          /\ UNCHANGED <<connectionVars, serviceVars, testerVars>>
       \/ /\ focus = "changes" /\ \E s \in Servers : Reconcile(s)
          /\ UNCHANGED <<connectionVars, serviceVars, testerVars>>
       \/ /\ \/ \E c \in Clients : ClientStep(c, {q \in RequestsOf[focus] : q.actor = c})
             \/ focus = "listing" /\ ReaderStep
             \/ focus = "tests" /\ (Tick \/ \E e \in Executors : ExecutorStep(e) \/ CrashExecutor(e))
          /\ UNCHANGED catalogVars

(* The clock runs, and an executor's loop is never blocked for ever.        *)
Fairness ==
    /\ WF_allVars(focus = "tests" /\ Tick /\ UNCHANGED <<catalogVars, focus>>)
    /\ \A e \in Executors :
         WF_allVars(focus = "tests" /\ ExecutorStep(e) /\ UNCHANGED <<catalogVars, focus>>)

Spec == Init /\ [][Next]_allVars /\ Fairness

(* Where the executors run, every test ends (see TestsEnd).                 *)
TestsEndWithExecutors == focus = "tests" => TestsEnd

===============================================================================
