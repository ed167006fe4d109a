------------------------------ MODULE Sources ------------------------------
(***************************************************************************)
(* From the files of a deploy to the machine an execution runs: what the   *)
(* imports merge, how a use fills a fragment, the digest a version is      *)
(* known by, the record it is published as, the start of the workers, each *)
(* with the files of its own image, and how each finds the machine of an   *)
(* execution (dsl/loader.py, published.py, worker.py, engine/hosting.py).  *)
(*                                                                         *)
(* A file is the sequence of its declarations, records with a sort:        *)
(*   import (path, alias), bind and guard and event (name, to),            *)
(*   fragment (name, params, body), machine (name, version, body).         *)
(* Names, qualified or not, are sequences of strings; no alias is the      *)
(* empty one, and a machine that declares no version has 0 here.  A body   *)
(* is the set of names it refers to, with the sort of each, and the        *)
(* sequence of its uses: states, hooks, inputs and nesting are left out,   *)
(* as are inline invokes.  A guard is a set of literals and names of       *)
(* guards, all of which must hold.                                         *)
(***************************************************************************)
EXTENDS Naturals, SequencesExt, Functions, TLC

CONSTANTS Worker,      \* the processes of the fleet
          Top,         \* the files at the top of the definitions directory, in order
          Images       \* the images that may be deployed: name -> path -> file

VARIABLES image,       \* worker -> the image it was started from, Off when it is down
          todo,        \* worker -> the records it has still to publish before it works
          problem,     \* worker -> whether a version it published was stored with other content
          published,   \* the store's records, by machine and version
          exe          \* the executions: a root and, once it invokes, its child

vars == <<image, todo, problem, published, exe>>

None == [none |-> TRUE]
Off == "off"
(* The value a set of one holds: TLC computes it once. *)
Only(S) == CHOOSE x \in S : TRUE
Nothing == [n \in {} |-> None]
OfSort(file, sort) == SelectSeq(file, LAMBDA d : d.sort = sort)
(* A name declared again in a file replaces the one before. *)
Declared(file, sort) == FoldLeft(LAMBDA f, d : (d.name :> d) @@ f, Nothing, OfSort(file, sort))
Meant(file, sort) == LET own == Declared(file, sort) IN [n \in DOMAIN own |-> own[n].to]

-----------------------------------------------------------------------------
(* Imports *)

Registries(seen) ==
  [action |-> Nothing, guard |-> Nothing, event |-> Nothing, fragment |-> Nothing, seen |-> seen, missing |-> FALSE]
Under(alias, registry) ==
  [n \in {alias \o k : k \in DOMAIN registry} |-> registry[SubSeq(n, Len(alias) + 1, Len(n))]]

(* What a file sees: fragments under the import's alias, the rest bare; a  *)
(* later import replaces an earlier one, what the file declares replaces   *)
(* both.  A file reached before, under whatever alias, is passed over.     *)
RECURSIVE LoadProgram(_, _, _)
LoadProgram(tree, path, seen) ==
  LET Merge(acc, d) ==
        IF d.path \in acc.seen THEN acc
        ELSE IF d.path \notin DOMAIN tree THEN [acc EXCEPT !.missing = TRUE]
        ELSE Only({[action |-> sub.action @@ acc.action, guard |-> sub.guard @@ acc.guard,
                    event |-> sub.event @@ acc.event, fragment |-> Under(d.alias, sub.fragment) @@ acc.fragment,
                    seen |-> sub.seen, missing |-> acc.missing \/ sub.missing] :
                     sub \in {LoadProgram(tree, d.path, acc.seen \cup {d.path})}})
      imported == FoldLeft(Merge, Registries(seen), OfSort(tree[path], "import"))
  IN [imported EXCEPT !.action = Meant(tree[path], "bind") @@ @, !.guard = Meant(tree[path], "guard") @@ @,
                      !.event = Meant(tree[path], "event") @@ @, !.fragment = Declared(tree[path], "fragment") @@ @]

-----------------------------------------------------------------------------
(* Fragments: a scope says what each name of each sort stands for *)

Unbound(name) == [tag |-> "unbound", arg |-> name]

(* A guard's literals, through the guards it names.  On a guard that       *)
(* comes back to itself (`open` holds the ones being resolved) the code    *)
(* recurses until Python stops it: no machine, as with one unbound.        *)
RECURSIVE ResolveGuards(_, _, _)
ResolveGuards(pred, known, open) ==
  UNION {CASE a.tag = "lit" -> {a}
           [] a.tag # "lit" /\ a.arg \in DOMAIN known \ open -> ResolveGuards(known[a.arg], known, open \cup {a.arg})
           [] OTHER -> {Unbound(a.arg)} : a \in pred}

(* What a reference of a body stands for: an action by its path is itself. *)
Resolve(ref, scope) ==
  LET known == IF ref.sort \in DOMAIN scope THEN scope[ref.sort] ELSE Nothing IN
  [sort |-> ref.sort, name |-> ref.name,
   is |-> CASE ref.sort = "guard" -> ResolveGuards({[tag |-> "name", arg |-> ref.name]}, known, {})
            [] ref.sort # "guard" /\ ref.name \in DOMAIN known -> {known[ref.name]}
            [] ref.sort \in {"action", "value"} /\ ref.name \notin DOMAIN known -> {Unbound(ref.name)}
            [] OTHER -> {[tag |-> "lit", arg |-> ref.name]}]

(* The arguments a parameter of each sort takes. *)
Takes == [action |-> {"name", "dotted"}, state |-> {"name", "dotted"}, event |-> {"name", "dotted"},
          guard |-> {"name", "pred"}, value |-> {"name", "lit"}]

(* What an argument stands for: a bare name what it is where the use       *)
(* stands, if it is anything there, and a predicate is passed on as it is  *)
(* written, its own names unresolved.                                      *)
Argument(sort, a, scope) ==
  CASE a.tag = "pred" -> a.pred
    [] a.tag # "pred" /\ a.arg \in DOMAIN scope[sort] /\ (a.tag = "name" \/ sort \in {"state", "event"}) -> scope[sort][a.arg]
    [] OTHER -> [tag |-> "lit", arg |-> a.arg]
Leaks(sort, a, scope) == sort \in {"action", "guard", "value"} /\ a.tag = "name" /\ a.arg \notin DOMAIN scope[sort]

(* The scope inside a use: the handlers, guards and values around it show  *)
(* through; the states and events it was given are all it can pass on.     *)
Inside(params, args, scope) ==
  LET Bound(sort) == [p \in {q \in DOMAIN params : params[q] = sort} |-> Argument(sort, args[p], scope)]
  IN [action |-> Bound("action") @@ scope.action, guard |-> Bound("guard") @@ scope.guard,
      value |-> Bound("value") @@ scope.value, state |-> Bound("state"), event |-> Bound("event")]

Refusal == [refs |-> {}, uses |-> {}, fails |-> TRUE]

(* A body with every reference resolved and every use spliced in; it fails *)
(* on a fragment nobody declared, on arguments that are not those the      *)
(* fragment takes, on two uses of one name and on anything left unbound.   *)
RECURSIVE Expand(_, _, _)
Expand(body, fragments, scope) ==
  LET Local(u) == IF u.alias = <<>> THEN <<Last(u.fragment)>> ELSE u.alias
      Instantiate(u) ==
        IF u.fragment \notin DOMAIN fragments THEN Refusal
        ELSE LET params == fragments[u.fragment].params IN
             IF \/ DOMAIN u.args # DOMAIN params
                \/ \E p \in DOMAIN params : u.args[p].tag \notin Takes[params[p]] \/ Leaks(params[p], u.args[p], scope)
             THEN Refusal
             ELSE Only({Expand(fragments[u.fragment].body, fragments, inside) : inside \in {Inside(params, u.args, scope)}})
      Whole(here, used) ==
        [refs |-> here,
         uses |-> {[as |-> u.as, refs |-> u.body.refs, uses |-> u.body.uses] : u \in used},
         fails |-> \/ \E r \in here : \E v \in r.is : v.tag = "unbound"
                   \/ \E u \in used : u.body.fails
                   \/ \E i, j \in DOMAIN body.uses : i # j /\ Local(body.uses[i]) = Local(body.uses[j])]
  IN Only({Whole(here, used) :
             here \in {{Resolve(r, scope) : r \in body.refs}},
             used \in {{[as |-> Local(body.uses[i]), body |-> Instantiate(body.uses[i])] : i \in DOMAIN body.uses}}})

-----------------------------------------------------------------------------
(* The version and the digest of a machine *)

(* A declaration as it counts in a digest: of an import, not its path. *)
Text(d) == IF d.sort = "import" THEN [sort |-> "import", alias |-> d.alias] ELSE d

(* What every machine of a file depends on: its declarations, then each    *)
(* imported file whole, its machines too.                                  *)
RECURSIVE DigestParts(_, _, _, _)
DigestParts(tree, path, seen, whole) ==
  LET file == tree[path]
      Shared == IF whole THEN file ELSE SelectSeq(file, LAMBDA d : d.sort # "machine")
      Follow(acc, d) ==
        IF d.path \in acc.seen \/ d.path \notin DOMAIN tree THEN acc
        ELSE Only({[seen |-> sub.seen, parts |-> acc.parts \o sub.parts] :
                     sub \in {DigestParts(tree, d.path, acc.seen \cup {d.path}, TRUE)}})
  IN FoldLeft(Follow, [seen |-> seen, parts |-> [i \in DOMAIN Shared |-> Text(Shared[i])]], OfSort(file, "import"))

(* A mistake: the imported files are not followed. *)
MachineVersionAlone(tree, path, name) ==
  LET own == Declared(tree[path], "machine")[name] IN
  [version |-> IF own.version = 0 THEN 1 ELSE own.version,
   digest |-> <<[own EXCEPT !.version = 0]>> \o SelectSeq(tree[path], LAMBDA d : d.sort # "machine")]

(* The digest keeps all it hashes: only equality is asked of it. *)
MachineVersion(tree, path, name) ==
  LET own == Declared(tree[path], "machine")[name] IN
  [version |-> IF own.version = 0 THEN 1 ELSE own.version,
   digest |-> <<[own EXCEPT !.version = 0]>> \o DigestParts(tree, path, {}, FALSE).parts]

-----------------------------------------------------------------------------
(* A machine as it is built *)

MachinesOf(file) == DOMAIN Declared(file, "machine")

ResolveCfg(tree, path, name) ==
  LET Expanded(prog) ==
        Expand(Declared(tree[path], "machine")[name].body, prog.fragment,
               [action |-> prog.action, guard |-> prog.guard, value |-> Nothing, state |-> Nothing, event |-> Nothing])
  IN Only(UNION {{[refs |-> cfg.refs, uses |-> cfg.uses, events |-> prog.event, fails |-> prog.missing \/ cfg.fails] :
                    cfg \in {Expanded(prog)}} : prog \in {LoadProgram(tree, path, {})}})

Built(tree, path, name, id, subs) ==
  Only({[id |-> id, cfg |-> ResolveCfg(tree, path, name), subs |-> subs, version |-> mv.version, digest |-> mv.digest] :
          mv \in {MachineVersion(tree, path, name)}})

(* The machines of the imported files, by the name an invoke gives them,   *)
(* each built in its own file's scope; one that does not build is skipped. *)
(* The first to take a name keeps it against what comes through it.        *)
RECURSIVE ImportedMachines(_, _, _)
ImportedMachines(tree, path, seen) ==
  LET Follow(acc, d) ==
        IF d.path \in acc.seen \/ d.path \notin DOMAIN tree THEN acc
        ELSE LET names == {n \in MachinesOf(tree[d.path]) : ~ResolveCfg(tree, d.path, n).fails}
                 its == [n \in names |-> Built(tree, d.path, n, d.alias \o n, Nothing)] IN
             Only({[seen |-> through.seen, subs |-> (Under(d.alias, its) @@ acc.subs) @@ Under(d.alias, through.subs)] :
                     through \in {ImportedMachines(tree, d.path, acc.seen \cup {d.path})}})
  IN FoldLeft(Follow, [seen |-> seen, subs |-> Nothing], OfSort(tree[path], "import"))

DefinitionFromDsl(tree, path, name) ==
  Built(tree, path, name, name, ImportedMachines(tree, path, {}).subs)

-----------------------------------------------------------------------------
(* Publishing *)

(* The files a record carries: the machine's and all it imports. *)
RECURSIVE Imports(_, _, _)
Imports(tree, path, seen) ==
  IF path \in seen \/ path \notin DOMAIN tree THEN seen
  ELSE FoldLeft(LAMBDA acc, d : Imports(tree, d.path, acc), seen \cup {path}, OfSort(tree[path], "import"))
(* A mistake: what the imported files import is not carried. *)
BundleDirect(tree, path) ==
  LET direct == {OfSort(tree[path], "import")[i].path : i \in DOMAIN OfSort(tree[path], "import")} IN
  [main |-> path, files |-> [p \in ({path} \cup direct) \cap DOMAIN tree |-> tree[p]]]
Bundle(tree, path) == [main |-> path, files |-> [p \in Imports(tree, path, {}) |-> tree[p]]]

DefinitionRecords(tree, path) ==
  LET names == SelectSeq(tree[path], LAMBDA d : d.sort = "machine") IN
  [i \in DOMAIN names |->
     Only({[id |-> names[i].name, version |-> mv.version, digest |-> mv.digest, source |-> Bundle(tree, path)] :
             mv \in {MachineVersion(tree, path, names[i].name)}})]
ReadDefinitions(tree) == FlattenSeq([i \in DOMAIN Top |-> IF Top[i] \in DOMAIN tree THEN DefinitionRecords(tree, Top[i]) ELSE <<>>])

(* Whether the source of a record is the version it says. *)
Rebuilds(r) ==
  /\ ~DefinitionFromDsl(r.source.files, r.source.main, r.id).cfg.fails
  /\ MachineVersion(r.source.files, r.source.main, r.id) = [version |-> r.version, digest |-> r.digest]

(* A worker loads the machines of its directory, or does not start: one    *)
(* that does not build, or a version loaded twice with different content.  *)
Machines(tree) ==
  UNION {{DefinitionFromDsl(tree, path, n) : n \in MachinesOf(tree[path])} : path \in {Top[i] : i \in DOMAIN Top} \cap DOMAIN tree}
Loads(tree) ==
  \A d, e \in Machines(tree) : ~d.cfg.fails /\ (<<d.id, d.version>> = <<e.id, e.version>> => d.digest = e.digest)

(* The registry of a runner: its machines and those they import. *)
Held(tree) == Machines(tree) \cup UNION {{d.subs[n] : n \in DOMAIN d.subs} : d \in Machines(tree)}
Registry(tree) ==
  Only({[k \in {<<d.id, d.version>> : d \in held} |-> CHOOSE d \in held : <<d.id, d.version>> = k] : held \in {Held(tree)}})

LoadedBy == [i \in DOMAIN Images |-> Machines(Images[i])]
Startable == [i \in DOMAIN Images |-> Loads(Images[i])]
HeldBy == [i \in DOMAIN Images |-> Held(Images[i])]
RegistryOf == [i \in DOMAIN Images |-> Registry(Images[i])]
RecordsOf == [i \in DOMAIN Images |-> ReadDefinitions(Images[i])]

(* The modules of the actions a machine calls, those of its submachines    *)
(* included: a version read from the store may call the ones the worker's  *)
(* own machines call.                                                      *)
RECURSIVE Calls(_)
Calls(body) == {Front(v.arg) : v \in UNION {r.is : r \in {q \in body.refs : q.sort = "action"}}} \cup UNION {Calls(u) : u \in body.uses}
(* A mistake: those of its submachines are not. *)
ActionModulesOwn(d) == Calls(d.cfg)
ActionModules(d) == Calls(d.cfg) \cup UNION {Calls(d.subs[n].cfg) : n \in DOMAIN d.subs}
Allowed == [i \in DOMAIN Images |-> UNION {ActionModules(d) : d \in HeldBy[i]}]
CheckActionModules(d, allowed) == \A m \in ActionModules(d) : \E a \in allowed : IsPrefix(a, m)

-----------------------------------------------------------------------------
(* Finding the machine of an execution: the worker's own when it is the    *)
(* source the execution started on, else the one published or, for a       *)
(* child, what its parent's machine holds under the child's name.          *)

Running(w) == image[w] # Off /\ todo[w] = <<>> /\ ~problem[w]

PublishedFor(w, id, version) ==
  LET r == published[<<id, version>>] IN
  IF <<id, version>> \notin DOMAIN published THEN None
  ELSE Only({IF Rebuilds(r) /\ CheckActionModules(d, Allowed[image[w]]) THEN d ELSE None :
               d \in {DefinitionFromDsl(r.source.files, r.source.main, id)}})

Own(w, id, version) ==
  IF <<id, version>> \in DOMAIN RegistryOf[image[w]] THEN RegistryOf[image[w]][<<id, version>>] ELSE None
(* The first of these that is the source the execution started on: with    *)
(* another, or none, no step is taken.                                     *)
(* A mistake: the version is enough. *)
FittingVersion(e, d) == d # None /\ d.version = e.version
Fitting(e, d) == d # None /\ <<d.version, d.digest>> = <<e.version, e.digest>>
FirstOf(e, own, elsewhere) ==
  IF Fitting(e, own) THEN own ELSE Only({IF Fitting(e, d) THEN d ELSE None : d \in {elsewhere}})

RootDefinition(w, e) == FirstOf(e, Own(w, e.id, e.version), PublishedFor(w, e.id, e.version))
ChildDefinition(w, e) ==
  FirstOf(e, Own(w, e.id, e.version),
          Only({IF up # None /\ e.id \in DOMAIN up.subs THEN up.subs[e.id] ELSE None : up \in {RootDefinition(w, e.parent)}}))
Definition(w, e) == IF e.parent = None THEN RootDefinition(w, e) ELSE ChildDefinition(w, e)

-----------------------------------------------------------------------------

Init ==
  /\ image = [w \in Worker |-> Off]
  /\ todo = [w \in Worker |-> <<>>]
  /\ problem = [w \in Worker |-> FALSE]
  /\ published = Nothing
  /\ exe = <<>>

(* A process starts on the files of its image. *)
Start(w) ==
  /\ image[w] = Off
  /\ \E i \in DOMAIN Images :
       /\ Startable[i]
       /\ image' = [image EXCEPT ![w] = i]
       /\ todo' = [todo EXCEPT ![w] = RecordsOf[i]]
  /\ UNCHANGED <<problem, published, exe>>

(* One record: stored if its version is not; stored with other content, it *)
(* stops the worker once the others are published.                         *)
Publish(w) ==
  LET r == Head(todo[w])
      key == <<r.id, r.version>> IN
  /\ todo[w] # <<>>
  /\ todo' = [todo EXCEPT ![w] = Tail(@)]
  /\ published' = published @@ (key :> r)
  /\ problem' = [problem EXCEPT ![w] = @ \/ published'[key].digest # r.digest]
  /\ UNCHANGED <<image, exe>>

Stop(w) ==
  /\ image[w] # Off
  /\ image' = [image EXCEPT ![w] = Off]
  /\ todo' = [todo EXCEPT ![w] = <<>>]
  /\ problem' = [problem EXCEPT ![w] = FALSE]
  /\ UNCHANGED <<published, exe>>

(* What an execution records of its machine, with the whole of it as it   *)
(* was at the start and at its last step, and who took that step.          *)
On(w, d, parent) ==
  [id |-> d.id, version |-> d.version, digest |-> d.digest, parent |-> parent, started |-> d, ran |-> d, by |-> w]
Pinned(e) == [id |-> e.id, version |-> e.version, digest |-> e.digest, parent |-> None]

(* A client creates one on the highest version the worker holds. *)
Create(w) ==
  /\ Running(w)
  /\ exe = <<>>
  /\ \E d \in LoadedBy[image[w]] :
       /\ \A e \in LoadedBy[image[w]] : e.id = d.id => e.version <= d.version
       /\ exe' = <<On(w, d, None)>>
  /\ UNCHANGED <<image, todo, problem, published>>

(* The root invokes a machine its file imports: the child runs the one     *)
(* the parent's version carries.                                           *)
Invoke(w) ==
  /\ Running(w)
  /\ Len(exe) = 1
  /\ \E d \in {RootDefinition(w, exe[1])} :
       d # None /\ \E fqn \in DOMAIN d.subs : exe' = Append(exe, On(w, d.subs[fqn], Pinned(exe[1])))
  /\ UNCHANGED <<image, todo, problem, published>>

(* A worker takes the next message of an execution. *)
Drive(w) ==
  /\ Running(w)
  /\ \E i \in DOMAIN exe : \E d \in {Definition(w, exe[i])} :
       /\ d # None
       /\ <<d, w>> # <<exe[i].ran, exe[i].by>>
       /\ exe' = [exe EXCEPT ![i].ran = d, ![i].by = w]
  /\ UNCHANGED <<image, todo, problem, published>>

Next == \E w \in Worker : Start(w) \/ Publish(w) \/ Stop(w) \/ Create(w) \/ Invoke(w) \/ Drive(w)
Spec == Init /\ [][Next]_vars

-----------------------------------------------------------------------------
(* Properties *)

(* What the workers hold under one version and one digest is one machine:  *)
(* its references, its uses, its events and the machines it imports        *)
(* (published.py _conflict and _defn_flow compare nothing but digests).    *)
DigestStandsForMachine ==
  \A w, x \in {y \in Worker : image[y] # Off} : \A d \in HeldBy[image[w]], e \in HeldBy[image[x]] :
    <<d.id, d.version, d.digest>> = <<e.id, e.version, e.digest>> => d = e

(* A record holds all its version is built from: the files it carries      *)
(* build the version and the digest it was published under, or no worker   *)
(* could ever use it (bundle, definition_from_record).                     *)
RecordsRebuild == \A k \in DOMAIN published : Rebuilds(published[k])

(* An execution runs to its end, child or root, the machine it started on, *)
(* whatever files the processes that take it up were deployed with         *)
(* (_defn_flow, publish_definitions).                                      *)
RunsWhatItStartedOn == \A i \in DOMAIN exe : exe[i].ran = exe[i].started

(* No step of an execution calls an action in a module that none of the    *)
(* worker's own machines calls, a child's step either, whose machine is    *)
(* read out of its parent's (check_action_modules, _action_refs).          *)
OnlyItsModules ==
  [][\A w \in Worker, i \in DOMAIN exe :
       Drive(w) /\ exe'[i] # exe[i] =>
         CheckActionModules(exe'[i].ran, Allowed[image[w]])]_vars
=============================================================================
