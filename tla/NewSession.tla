----------------------------- MODULE NewSession -----------------------------
(***************************************************************************)
(* The New session page: the machines that are online, from the page's own *)
(* load and from the shell's poll, the choices made of what a machine      *)
(* registered, and the start.  A machine may register again with other     *)
(* directories, agents and models, or go, while the form is being filled.  *)
(***************************************************************************)
EXTENDS Browser

CONSTANT Machines   \* the caller's machines

(* Nothing chosen is not a machine, and no answer is not an answer. *)
ASSUME NewAssumption == Nothing \notin Machines /\ Nothing # "requested"

OnNew == page = "new"

(* What a machine may register.  A directory belongs to a machine, a model  *)
(* to an agent.                                                             *)
Registrations == {
    [dirs |-> <<"code", "docs">>, agents |-> <<"claude", "codex">>, claude |-> {"opus"}, codex |-> {"gpt"}],
    [dirs |-> <<"docs">>, agents |-> <<"codex">>, claude |-> {}, codex |-> {}]}

DirsOf(m, reg) == {<<m, reg.dirs[i]>> : i \in DOMAIN reg.dirs}
AgentsOf(reg) == {reg.agents[i] : i \in DOMAIN reg.agents}
ModelsFor(reg, agent) == IF agent = "claude" THEN reg.claude ELSE reg.codex

(* listHosts: the machines that are registered now. *)
Online(list) == {m \in Machines : list[m] # Nothing}

NewInit ==
    \E m \in Machines, r \in Registrations :
      LET reg == [n \in Machines |-> IF n = m THEN r ELSE Nothing] IN
        Opens("new",
              [hosts |-> Nothing, host |-> Nothing, cwd |-> Nothing, agent |-> Nothing,
               model |-> Nothing, starting |-> FALSE, left |-> FALSE],
              [reg |-> reg, asked |-> FALSE], Request("hosts", Nothing))

(* What the browser remembers from earlier visits: any model, taken only if *)
(* the machine still lists it for the agent.                                *)
Remembered(p, m, agent) == ModelsFor(p.hosts[m], agent) \cup {Nothing}

(* pickHost: the machine's first directory, and the agent that the address  *)
(* asks for where the machine has it, or its first.  The sidebar's menu     *)
(* changes what the address asks for while the form is up.                  *)
(* Mutated form: the directory of the machine before stays.                 *)
PickHost_KeepsDir(p, m) ==
    UNION {{[p EXCEPT !.host = m, !.cwd = IF @ = Nothing THEN <<m, p.hosts[m].dirs[1]>> ELSE @,
                      !.agent = a, !.model = id] : id \in Remembered(p, m, a)} : a \in AgentsOf(p.hosts[m])}
PickHost(p, m) ==
    UNION {{[p EXCEPT !.host = m, !.cwd = <<m, p.hosts[m].dirs[1]>>,
                      !.agent = a, !.model = id] : id \in Remembered(p, m, a)} : a \in AgentsOf(p.hosts[m])}

(* The effect on the list: a machine that is gone is not chosen any more,   *)
(* the only one there is gets chosen.                                       *)
Chosen(p) ==
    LET q == IF p.host # Nothing /\ p.hosts[p.host] = Nothing THEN [p EXCEPT !.host = Nothing] ELSE p
    IN IF q.host = Nothing /\ Cardinality(Online(q.hosts)) = 1
         THEN PickHost(q, CHOOSE m \in Machines : q.hosts[m] # Nothing) ELSE {q}

Offline == [m \in Machines |-> Nothing]

(* The shell's interval and "Check again". *)
PollHosts == Fetch("poll", Nothing) /\ Only(<<ui, server>>)
CheckAgain ==
    ui.hosts = Offline /\ Fetch("hosts", Nothing) /\ Only(<<ui, server>>)

ServeHosts(c) ==
    (Sent(c, "hosts") \/ Sent(c, "poll")) /\ Answer(c, server.reg) /\ Only(<<ui, server>>)

(* The page's load keeps the list it has when it fails.  The poll takes a   *)
(* failure for no machine.                                                  *)
HostsAnswered(c) ==
    /\ Back(c, "hosts") \/ Back(c, "poll")
    /\ LET list == IF calls[c].at = "ok" THEN calls[c].got
                   ELSE IF calls[c].op = "hosts" /\ ui.hosts # Nothing THEN ui.hosts ELSE Offline
       IN \E p \in Chosen([ui EXCEPT !.hosts = list]) : Page(p)
    /\ Done(c) /\ Only(server)

(* What the page renders: a note while it has no list, the way to set up a  *)
(* machine when there is none, else the machines and, with one chosen, the  *)
(* pickers.                                                                 *)
Screen ==
    CASE ui.hosts = Nothing -> "looking"
      [] ui.hosts = Offline -> "setup"
      [] OTHER -> IF ui.host = Nothing THEN "machines" ELSE "pickers"
Mine == ui.hosts[ui.host]

PickMachine(m) ==
    /\ Screen \in {"machines", "pickers"} /\ m \in Online(ui.hosts) /\ m # ui.host
    /\ \E p \in PickHost(ui, m) : Page(p)
    /\ Only(<<server, calls>>)

PickDirectory(d) ==
    /\ Screen = "pickers" /\ d \in DirsOf(ui.host, Mine)
    /\ Page([ui EXCEPT !.cwd = d]) /\ Only(<<server, calls>>)

(* Mutated form: the model picked for the agent before stays. *)
PickAgent_KeepsModel(a) ==
    /\ Screen = "pickers" /\ a \in AgentsOf(Mine)
    /\ Page([ui EXCEPT !.agent = a]) /\ Only(<<server, calls>>)
PickAgent(a) ==
    /\ Screen = "pickers" /\ a \in AgentsOf(Mine)
    /\ \E id \in Remembered(ui, ui.host, a) : Page([ui EXCEPT !.agent = a, !.model = id])
    /\ Only(<<server, calls>>)

PickModel(id) ==
    /\ Screen = "pickers" /\ id \in ModelsFor(Mine, ui.agent) \cup {Nothing}
    /\ Page([ui EXCEPT !.model = id]) /\ Only(<<server, calls>>)

CanStart == Screen = "pickers" /\ ~ui.starting

StartSession ==
    /\ CanStart
    /\ Page([ui EXCEPT !.starting = TRUE])
    /\ Fetch("spawn", [host |-> ui.host, agent |-> ui.agent, cwd |-> ui.cwd, model |-> ui.model])
    /\ Only(server)

(* POST /sessions with a machine: what the machine has registered by now is *)
(* checked before anything is made.                                         *)
Registered(s) ==
    LET reg == server.reg[s.host] IN
      /\ reg # Nothing /\ s.agent \in AgentsOf(reg) /\ s.cwd \in DirsOf(s.host, reg)
      /\ s.model = Nothing \/ s.model \in ModelsFor(reg, s.agent)
ServeSpawn(c) ==
    /\ Sent(c, "spawn")
    /\ \E how \in IF Registered(calls[c].arg) THEN {"requested", "unreached"} ELSE {"refused"} :
         Answer(c, how) /\ server' = [server EXCEPT !.asked = @ \/ how = "requested"]
    /\ Only(ui)

(* Only a spawn the machine was asked for leaves the form.                  *)
(* Mutated form: whatever was answered leaves it.                           *)
SpawnAnswered_Leaves(c) ==
    /\ Back(c, "spawn")
    /\ Page([ui EXCEPT !.starting = FALSE, !.left = Ok(c, "spawn")])
    /\ Done(c) /\ Only(server)
SpawnAnswered(c) ==
    /\ Back(c, "spawn")
    /\ Page(IF calls[c].got = "requested" THEN [ui EXCEPT !.left = TRUE]
            ELSE [ui EXCEPT !.starting = FALSE])
    /\ Done(c) /\ Only(server)

HostsElsewhere ==
    \E m \in Machines, r \in Registrations \cup {Nothing} : Elsewhere([server EXCEPT !.reg[m] = r])

NewNext ==
    /\ OnNew /\ ~ui.left
    /\ \/ PollHosts \/ CheckAgain \/ StartSession \/ HostsElsewhere
       \/ \E m \in Machines : PickMachine(m) \/ PickDirectory(<<m, "code">>) \/ PickDirectory(<<m, "docs">>)
       \/ \E a \in {"claude", "codex"} : PickAgent(a)
       \/ \E id \in {"opus", "gpt", Nothing} : PickModel(id)
       \/ \E c \in Slots : ServeHosts(c) \/ HostsAnswered(c) \/ ServeSpawn(c) \/ SpawnAnswered(c)
-----------------------------------------------------------------------------
Regs == Registrations \cup {Nothing}

NewTypeOK ==
    OnNew =>
      /\ server.reg \in [Machines -> Regs]
      /\ ui.hosts = Nothing \/ ui.hosts \in [Machines -> Regs]
      /\ ui.host \in Machines \cup {Nothing} /\ ui.agent \in {"claude", "codex", Nothing}
      /\ {server.asked, ui.starting, ui.left} \subseteq BOOLEAN

(* The form never mixes what two machines offer, or a model with another    *)
(* agent, through polls that drop a machine, the only machine chosen again, *)
(* and models remembered from earlier visits.                               *)
OneMachinesOffer ==
    (OnNew /\ ui.host # Nothing) =>
      /\ ui.cwd[1] = ui.host
      /\ ui.model # Nothing => \E r \in Registrations : ui.model \in ModelsFor(r, ui.agent)

(* The page leaves for a session only when a machine was asked to start an  *)
(* agent, so the reason of one that was refused or not reached can be read  *)
(* and the start tried again: the form is never left disabled.              *)
LeavesForAnAgent ==
    OnNew => /\ ui.left => server.asked
             /\ Quiet => ui.starting = ui.left

HostsCurrent == OnNew /\ ~ui.left => ui.hosts = server.reg
=============================================================================
