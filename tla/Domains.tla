------------------------------- MODULE Domains -------------------------------
(***************************************************************************)
(* Domain names: the table domains, the nginx conf files and the address   *)
(* each file proxies to.  A user publishes and removes domains             *)
(* (src/cmd/domain_handler.go); the deploy job publishes the code domain   *)
(* of a new container and the kill job removes everything                  *)
(* (src/lxd/lxd.go, src/cmd/instance_utility.go).                          *)
(*                                                                         *)
(* The code domain has the name of its user's container and is written as  *)
(* the user; no handler keeps others from publishing or removing a domain  *)
(* of that name.  How an address is chosen is LxcIp's matter, here it may  *)
(* be any, and how a job is retried InstanceJobs': a job that fails here   *)
(* leaves its work as it is.                                               *)
(***************************************************************************)
EXTENDS Integers, FiniteSets

CONSTANTS
  Users,
  Names,         \* the domain names users publish
  Hosts,         \* addresses of instances
  Workers,       \* handlers and jobs at work at the same time
  Limit,         \* USER_DOMAIN_LIMIT: 3
  FailingSteps,  \* the steps whose call may return an error
  NoUser, NoHost, Nowhere

Domain == Names \cup Users

Calls == {"count", "insert", "getIP", "write", "removeRow", "removeConf",
          "codeRow", "codeConf", "instanceRow",
          "delete", "undomain", "unconf", "dbRemove", "list", "cleanup", "deleteRows"}

ASSUME DomainsAssumption ==
  /\ Names \cap Users = {}
  /\ NoUser \notin Users
  /\ NoHost \notin Hosts /\ Nowhere \notin Hosts /\ NoHost # Nowhere
  /\ Limit \in Nat
  /\ FailingSteps \subseteq Calls

VARIABLES
  domains,    \* table domains: the user_id of each domain_name
  code,       \* the domain_names whose row has is_code = TRUE
  conf,       \* the address a domain's conf file proxies to; NoHost: no file
  userip,     \* table userip
  container,  \* the address each user's LXD container was created with
  instance,   \* users with a row in table instance
  pc, uid, name, ip, listed    \* where each worker is, and its local variables

tables == <<domains, code>>
stores == <<tables, conf, userip, container, instance>>
locals == <<pc, uid, name, ip, listed>>
vars == <<stores, locals>>

Init ==
  /\ domains = [d \in Domain |-> NoUser]
  /\ conf = [d \in Domain |-> NoHost]
  /\ userip = [u \in Users |-> NoHost]
  /\ code = {} /\ instance = {}
  /\ container = [u \in Users |-> NoHost]
  /\ pc = [w \in Workers |-> "idle"]
  /\ uid = [w \in Workers |-> NoUser]
  /\ name = [w \in Workers |-> NoUser]
  /\ ip = [w \in Workers |-> NoHost]
  /\ listed = [w \in Workers |-> {}]

GoTo(w, step) ==
  /\ pc' = [pc EXCEPT ![w] = step]
  /\ UNCHANGED <<uid, name, ip, listed>>

Return(w) ==
  /\ pc' = [pc EXCEPT ![w] = "idle"]
  /\ uid' = [uid EXCEPT ![w] = NoUser]
  /\ name' = [name EXCEPT ![w] = NoUser]
  /\ ip' = [ip EXCEPT ![w] = NoHost]
  /\ listed' = [listed EXCEPT ![w] = {}]

Begin(w, u, d, h, step) ==
  /\ pc[w] = "idle"
  /\ pc' = [pc EXCEPT ![w] = step]
  /\ uid' = [uid EXCEPT ![w] = u]
  /\ name' = [name EXCEPT ![w] = d]
  /\ ip' = [ip EXCEPT ![w] = h]
  /\ UNCHANGED listed

Rows(u) == {d \in Domain : domains[d] = u}

\* DELETE: the rows of w's user among these names go, and is_code with them.
DeleteRows(w, names) ==
  /\ domains' = [d \in Domain |-> IF d \in names /\ domains[d] = uid[w] THEN NoUser ELSE domains[d]]
  /\ code' = code \ (names \cap Rows(uid[w]))

\* Variant: the limit itself is let through.
CountAboveLimit(u) == Cardinality(Rows(u)) > Limit

\* The code domain counts as well.
CountAtLimit(u) == Cardinality(Rows(u)) >= Limit

-----------------------------------------------------------------------------
(* AddUserDomain *)

AddUserDomain(w, u, d) == Begin(w, u, d, NoHost, "count") /\ UNCHANGED stores

CountDomains(w) ==
  /\ pc[w] = "count"
  /\ IF CountAtLimit(uid[w]) THEN Return(w) ELSE GoTo(w, "insert")
  /\ UNCHANGED stores

\* domain_name is UNIQUE.
InsertDomain(w) ==
  /\ pc[w] = "insert"
  /\ \/ /\ domains[name[w]] = NoUser
        /\ domains' = [domains EXCEPT ![name[w]] = uid[w]]
        /\ GoTo(w, "getIP")
     \/ domains[name[w]] # NoUser /\ Return(w) /\ UNCHANGED domains
  /\ UNCHANGED <<code, conf, userip, container, instance>>

\* Variant: the address of a user without an instance is left out.
GetIPOrNothing(w, found) ==
  /\ pc[w] = "getIP"
  /\ ip' = [ip EXCEPT ![w] = IF found THEN userip[uid[w]] ELSE Nowhere]
  /\ pc' = [pc EXCEPT ![w] = "write"]
  /\ UNCHANGED <<stores, uid, name, listed>>

\* No row, and any error of the query, is the address -1 without an error.
GetIPFromUID(w, found) ==
  /\ pc[w] = "getIP"
  /\ ip' = [ip EXCEPT ![w] = IF found /\ userip[uid[w]] # NoHost THEN userip[uid[w]] ELSE Nowhere]
  /\ pc' = [pc EXCEPT ![w] = "write"]
  /\ UNCHANGED <<stores, uid, name, listed>>

AddNewConf(w) ==
  /\ pc[w] = "write"
  /\ conf' = [conf EXCEPT ![name[w]] = ip[w]]
  /\ Return(w)
  /\ UNCHANGED <<tables, userip, container, instance>>

-----------------------------------------------------------------------------
(* RemoveUserDomain: deleting no row is not an error, and the file goes    *)
(* whether the domain was the user's own or not.                           *)

RemoveUserDomain(w, u, d) == Begin(w, u, d, NoHost, "removeRow") /\ UNCHANGED stores

RemoveDomain(w) ==
  /\ pc[w] = "removeRow"
  /\ DeleteRows(w, {name[w]})
  /\ GoTo(w, "removeConf")
  /\ UNCHANGED <<conf, userip, container, instance>>

RemoveConf(w) ==
  /\ pc[w] = "removeConf"
  /\ conf' = [conf EXCEPT ![name[w]] = NoHost]
  /\ Return(w)
  /\ UNCHANGED <<tables, userip, container, instance>>

-----------------------------------------------------------------------------
(* deploy of a new container *)

\* CreateInstance, up to the running container.  The allocator may give out an
\* address that is in use, and one without a row in userip when its transaction
\* lost every attempt.
Deploy(w, u) ==
  /\ Begin(w, u, u, NoHost, "codeRow")
  /\ container[u] = NoHost
  /\ \E h \in Hosts :
       /\ container' = [container EXCEPT ![u] = h]
       /\ \/ userip[u] = NoHost /\ userip' = [userip EXCEPT ![u] = h]
          \/ UNCHANGED userip
  /\ UNCHANGED <<tables, conf, instance>>

\* is_code is TRUE by default.
AddCodeDomain(w) ==
  /\ pc[w] = "codeRow"
  /\ \/ /\ domains[name[w]] = NoUser
        /\ domains' = [domains EXCEPT ![name[w]] = uid[w]]
        /\ code' = code \cup {name[w]}
        /\ GoTo(w, "codeConf")
     \/ domains[name[w]] # NoUser /\ Return(w) /\ UNCHANGED tables
  /\ UNCHANGED <<conf, userip, container, instance>>

\* FindContainerIP: LXD gives the container the address it was created with.
AddCodeConf(w) ==
  /\ pc[w] = "codeConf"
  /\ conf' = [conf EXCEPT ![name[w]] = container[uid[w]]]
  /\ GoTo(w, "instanceRow")
  /\ UNCHANGED <<tables, userip, container, instance>>

CreateInstanceRow(w) ==
  /\ pc[w] = "instanceRow"
  /\ instance' = instance \cup {uid[w]}
  /\ Return(w)
  /\ UNCHANGED <<tables, conf, userip, container>>

-----------------------------------------------------------------------------
(* kill *)

\* DeleteInstance begins with the address.
Kill(w, u) ==
  /\ Begin(w, u, u, userip[u], "delete")
  /\ container[u] # NoHost /\ userip[u] # NoHost
  /\ userip' = [userip EXCEPT ![u] = NoHost]
  /\ UNCHANGED <<tables, conf, container, instance>>

DeleteContainer(w) ==
  /\ pc[w] = "delete"
  /\ container' = [container EXCEPT ![uid[w]] = NoHost]
  /\ GoTo(w, "undomain")
  /\ UNCHANGED <<tables, conf, userip, instance>>

RemoveCodeDomain(w) ==
  /\ pc[w] = "undomain"
  /\ DeleteRows(w, {name[w]})
  /\ GoTo(w, "unconf")
  /\ UNCHANGED <<conf, userip, container, instance>>

\* Variant: the code domain's file stays.
KeepCodeConf(w) ==
  /\ pc[w] = "unconf"
  /\ GoTo(w, "dbRemove")
  /\ UNCHANGED stores

RemoveCodeConf(w) ==
  /\ pc[w] = "unconf"
  /\ conf' = [conf EXCEPT ![name[w]] = NoHost]
  /\ GoTo(w, "dbRemove")
  /\ UNCHANGED <<tables, userip, container, instance>>

\* Without a row kill goes to the retry queue, where it fares no better.
RemoveInstance(w) ==
  /\ pc[w] = "dbRemove"
  /\ instance' = instance \ {uid[w]}
  /\ IF uid[w] \in instance THEN GoTo(w, "list") ELSE Return(w)
  /\ UNCHANGED <<tables, conf, userip, container>>

\* Variant: is_code = TRUE is asked for.
CodeDomains(u) == Rows(u) \cap code

\* is_code = FALSE
UserDomains(u) == Rows(u) \ code

GetUserDomains(w) ==
  /\ pc[w] = "list"
  /\ listed' = [listed EXCEPT ![w] = UserDomains(uid[w])]
  /\ pc' = [pc EXCEPT ![w] = "cleanup"]
  /\ UNCHANGED <<stores, uid, name, ip>>

\* The files go one by one; a failure is logged and the next one follows.
CleanUp(w, removed) ==
  /\ pc[w] = "cleanup"
  /\ \/ \E d \in listed[w] :
          /\ conf' = IF removed THEN [conf EXCEPT ![d] = NoHost] ELSE conf
          /\ listed' = [listed EXCEPT ![w] = @ \ {d}]
          /\ UNCHANGED <<pc, uid, name, ip>>
     \/ listed[w] = {} /\ removed /\ GoTo(w, "deleteRows") /\ UNCHANGED conf
  /\ UNCHANGED <<tables, userip, container, instance>>

DeleteUserDomains(w) ==
  /\ pc[w] = "deleteRows"
  /\ DeleteRows(w, Domain)
  /\ Return(w)
  /\ UNCHANGED <<conf, userip, container, instance>>

-----------------------------------------------------------------------------
\* kill ranges over the list that a failed query did not return: a panic in a
\* job's goroutine, which ends the process.
Panic ==
  /\ pc' = [w \in Workers |-> "idle"]
  /\ uid' = [w \in Workers |-> NoUser]
  /\ name' = [w \in Workers |-> NoUser]
  /\ ip' = [w \in Workers |-> NoHost]
  /\ listed' = [w \in Workers |-> {}]
  /\ UNCHANGED stores

\* An error ends the handler or the attempt, but for those only logged.
CallFails(w) ==
  /\ pc[w] \in FailingSteps
  /\ \/ pc[w] \notin {"getIP", "list", "cleanup"} /\ Return(w) /\ UNCHANGED stores
     \/ GetIPFromUID(w, FALSE)
     \/ pc[w] = "list" /\ Panic
     \/ CleanUp(w, FALSE)

Publishing(w) == CountDomains(w) \/ InsertDomain(w) \/ GetIPFromUID(w, TRUE) \/ AddNewConf(w)
Removing(w) == RemoveDomain(w) \/ RemoveConf(w)
Deploying(w) == AddCodeDomain(w) \/ AddCodeConf(w) \/ CreateInstanceRow(w)
Killing(w) ==
  \/ DeleteContainer(w) \/ RemoveCodeDomain(w) \/ RemoveCodeConf(w) \/ RemoveInstance(w)
  \/ GetUserDomains(w) \/ CleanUp(w, TRUE) \/ DeleteUserDomains(w)

Succeeds(w) ==
  \/ \E u \in Users :
       \/ Deploy(w, u) \/ Kill(w, u)
       \/ \E d \in Domain : AddUserDomain(w, u, d) \/ RemoveUserDomain(w, u, d)
  \/ Publishing(w) \/ Removing(w) \/ Deploying(w) \/ Killing(w)

Next == \E w \in Workers : Succeeds(w) \/ CallFails(w)

Spec == Init /\ [][Next]_vars

-----------------------------------------------------------------------------
(* Properties *)

\* Also: every file is written with an address.
TypeOK ==
  /\ domains \in [Domain -> Users \cup {NoUser}]
  /\ conf \in [Domain -> Hosts \cup {NoHost, Nowhere}]
  /\ userip \in [Users -> Hosts \cup {NoHost}]
  /\ container \in [Users -> Hosts \cup {NoHost}]
  /\ code \subseteq Domain /\ instance \subseteq Users
  /\ pc \in [Workers -> Calls \cup {"idle"}]
  /\ uid \in [Workers -> Users \cup {NoUser}]
  /\ name \in [Workers -> Domain \cup {NoUser}]
  /\ ip \in [Workers -> Hosts \cup {NoHost, Nowhere}]
  /\ listed \in [Workers -> SUBSET Domain]
  /\ \A w \in Workers : pc[w] = "write" => ip[w] # NoHost

\* The user has no more than USER_DOMAIN_LIMIT user domains, whatever happens to
\* the code domain in between.
WithinLimit(u) == Cardinality(UserDomains(u)) <= Limit

\* nginx sends nobody's visitors to the instance at this address but those of its
\* user's domains, and of a domain whose file this user is about to remove.  Kill
\* releases the address first and removes the files last.
RoutesToOwner(h) ==
  \A d \in Domain, u \in Users :
    conf[d] = h /\ h \in {userip[u], container[u]} =>
      domains[d] = u \/ \E w \in Workers : pc[w] = "removeConf" /\ name[w] = d /\ uid[w] = u

\* No operation is at work on the domain or for its owner.
AtRest(d) == \A w \in Workers : pc[w] # "idle" => name[w] # d /\ uid[w] # domains[d]

\* The domain has its row and its file, or neither.
RowMatchesFile(d) == domains[d] = NoUser <=> conf[d] = NoHost
=============================================================================
