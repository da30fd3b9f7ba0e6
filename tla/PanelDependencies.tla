-------------------------- MODULE PanelDependencies --------------------------
(***************************************************************************)
(* The check of a generated panel's external dependencies before it runs:  *)
(* panels/validate.py, from the scan of the markup to the crawl of modules *)
(* imported by modules.  The crawl is bounded in time, resources and       *)
(* redirects, and what a bound cuts off says nothing about the panel.      *)
(*                                                                         *)
(* A specifier is a record: a URL (absolute or resolved against its        *)
(* importer) or a bare name, a sequence of path segments.  The network     *)
(* answers each URL in one way for the length of a check.                  *)
(***************************************************************************)
EXTENDS Naturals, Sequences, FiniteSets

CONSTANTS Urls,              \* resources outside the panel
          Documents,         \* markups to scan: sets of elements with an import map
          Networks,          \* what the network answers: [Urls -> Answer]
          MaxDependencies,   \* _MAX_DEPENDENCIES
          MaxRedirects,      \* _MAX_REDIRECTS
          NoUrl

VARIABLES document,   \* the markup under check
          network,    \* what the CDNs answer during it
          seen,       \* dependencies probed or being probed
          probing,    \* the wave's probes that have not returned
          found,      \* modules the wave's modules import
          problems,   \* what will be reported
          phase       \* "scan", "crawl" or "done"

vars == <<document, network, seen, probing, found, problems, phase>>

Url(u) == [bare |-> FALSE, url |-> u]
Bare(name) == [bare |-> TRUE, name |-> name]
Dependency(u, kind) == [url |-> u, kind |-> kind]
Unresolved(name) == [kind |-> "unresolved", what |-> name]

-----------------------------------------------------------------------------
(* Import maps: exact entries win over directories, a longer directory     *)
(* over a shorter one, and the entries of the scope that covers the        *)
(* importer over those of the top level.                                   *)
Longest(keys) == CHOOSE k \in keys : \A o \in keys : Len(o) <= Len(k)

ResolveEntry(name, map) ==
    LET dirs == {k \in DOMAIN map.dirs : Len(k) < Len(name) /\ SubSeq(name, 1, Len(k)) = k}
    IN IF name \in DOMAIN map.exact THEN map.exact[name]
       ELSE IF dirs = {} THEN NoUrl ELSE map.dirs[Longest(dirs)]

Overlaid(f, g) == [k \in DOMAIN f \cup DOMAIN g |-> IF k \in DOMAIN g THEN g[k] ELSE f[k]]

Mappings(importer, doc) ==
    IF importer \in DOMAIN doc.scopes
    THEN [exact |-> Overlaid(doc.imports.exact, doc.scopes[importer].exact),
          dirs |-> Overlaid(doc.imports.dirs, doc.scopes[importer].dirs)]
    ELSE doc.imports

ResolveSpecifier(s, importer, doc) ==
    IF ~s.bare THEN s.url ELSE ResolveEntry(s.name, Mappings(importer, doc))

-----------------------------------------------------------------------------
(* _scan_document: the resources the markup names, and the bare names its  *)
(* inline modules import.  A preload says too little to be checked.        *)
Scanned(doc) ==
    UNION {CASE e.tag = "script" ->
                  (IF e.src = NoUrl THEN {} ELSE {Dependency(e.src, e.type)})
                  \cup {Dependency(s.url, "module") : s \in {i \in e.imports : ~i.bare}}
             [] e.tag = "link" /\ e.rel = "modulepreload" -> {Dependency(e.href, "module")}
             [] e.tag = "link" /\ e.rel = "stylesheet" -> {Dependency(e.href, "stylesheet")}
             [] OTHER -> {} : e \in doc.elements}

InlineNames(doc) == UNION {{s \in e.imports : s.bare}
                             : e \in {x \in doc.elements : x.tag = "script"}}

-----------------------------------------------------------------------------
(* _probe_dependency: the host is checked again at every redirect, an      *)
(* outage or a busy server is no problem, and neither is a long chain.     *)
Permitted(kind, u) ==
    network[u].host \in (IF kind = "stylesheet" THEN {"cdn", "fonts"} ELSE {"cdn"})


ResponseProblem(kind, u) ==
    IF ~Permitted(kind, u) THEN "csp"
    ELSE IF network[u].answer = "gone" THEN "gone" ELSE "none"

Probe(d) ==
    LET from[u \in Urls, hops \in 0..MaxRedirects] ==
          LET problem == ResponseProblem(d.kind, u)
          IN IF problem = "none" /\ network[u].answer = "redirect" /\ hops > 0
             THEN from[network[u].to, hops - 1]
             ELSE [problem |-> problem, final |-> u,
                   source |-> problem = "none" /\ network[u].answer = "ok"]
    IN from[d.url, MaxRedirects]

(* The modules a fetched module imports, relative to where it was found.   *)
Imported(d) == LET p == Probe(d)
               IN IF d.kind = "module" /\ p.source THEN network[p.final].imports ELSE {}

-----------------------------------------------------------------------------
Init == /\ document \in Documents
        /\ network \in Networks
        /\ seen = {} /\ probing = {} /\ found = {} /\ problems = {}
        /\ phase = "scan"

(* The next wave: what the limit leaves of the pending dependencies.       *)
StartWave(pending) ==
    LET room == MaxDependencies - Cardinality(seen)
        few == Cardinality(pending) <= room
    IN /\ probing' \in {W \in SUBSET pending :
                          Cardinality(W) = IF few THEN Cardinality(pending) ELSE room}
       /\ seen' = seen \cup probing'
       /\ found' = {}
       /\ phase' = IF probing' = {} THEN "done" ELSE "crawl"

Scan ==
    LET targets == {<<s, ResolveSpecifier(s, NoUrl, document)>> : s \in InlineNames(document)}
    IN /\ phase = "scan"
       /\ problems' = {Unresolved(t[1].name) : t \in {x \in targets : x[2] = NoUrl}}
       /\ StartWave(Scanned(document)
                    \cup {Dependency(t[2], "module") : t \in {x \in targets : x[2] # NoUrl}})
       /\ UNCHANGED <<document, network>>

(* _probe_and_record: each probe records what it found as it returns.      *)
Record(d) ==
    LET p == Probe(d)
        targets == {<<s, ResolveSpecifier(s, p.final, document)>> : s \in Imported(d)}
    IN /\ phase = "crawl"
       /\ d \in probing
       /\ probing' = probing \ {d}
       /\ found' = found \cup {Dependency(t[2], "module") : t \in {x \in targets : x[2] # NoUrl}}
       /\ problems' = problems
             \cup (IF p.problem = "none" THEN {} ELSE {[kind |-> p.problem, what |-> d]})
             \cup {Unresolved(t[1].name) : t \in {x \in targets : x[2] = NoUrl}}
       /\ UNCHANGED <<document, network, seen, phase>>

NextWave ==
    /\ phase = "crawl"
    /\ probing = {}
    /\ StartWave(found \ seen)
    /\ UNCHANGED <<document, network, problems>>

(* asyncio.timeout: what was found so far is reported.                     *)
Deadline ==
    /\ phase = "crawl"
    /\ phase' = "late"
    /\ UNCHANGED <<document, network, seen, probing, found, problems>>

Reported == phase \in {"done", "late"} /\ UNCHANGED vars

Next == Scan \/ (\E d \in probing : Record(d)) \/ NextWave \/ Deadline \/ Reported

Spec == Init /\ [][Next]_vars

-----------------------------------------------------------------------------
(* What a browser would load of the panel.                                 *)
Edges(D) == D \cup UNION {{Dependency(u, "module") : u \in
                            {ResolveSpecifier(s, Probe(d).final, document) : s \in Imported(d)} \ {NoUrl}}
                          : d \in D}
Direct == Scanned(document)
          \cup {Dependency(u, "module") : u \in
                  {ResolveSpecifier(s, NoUrl, document) : s \in InlineNames(document)} \ {NoUrl}}
Loaded == LET reach[n \in 0..Cardinality(Urls)] ==
                IF n = 0 THEN Direct ELSE Edges(reach[n - 1])
          IN reach[Cardinality(Urls)]

(* A chain of at most MaxRedirects redirects from u to v, all permitted.   *)
Leads(d, v) == \E n \in 0..MaxRedirects : \E path \in [0..n -> Urls] :
    /\ path[0] = d.url /\ path[n] = v
    /\ \A i \in 0..(n - 1) : /\ Permitted(d.kind, path[i])
                             /\ network[path[i]].answer = "redirect"
                             /\ path[i + 1] = network[path[i]].to

(* The browser surely refuses d, or its server surely has not got it.      *)
Broken(d) == \E v \in Urls : /\ Leads(d, v)
                             /\ ~Permitted(d.kind, v) \/ network[v].answer = "gone"

(* Only what is definitely broken is held against a panel, whatever the    *)
(* order of the answers, outages, long chains, large trees and the         *)
(* deadline; and a crawl no bound cut short missed nothing.                *)
CrawlSound ==
    /\ \A p \in problems : p.kind # "unresolved" => p.what \in Loaded /\ Broken(p.what)
    /\ phase = "done" /\ Cardinality(Loaded) <= MaxDependencies =>
         \A d \in Loaded : Broken(d) => \E p \in problems : p.kind # "unresolved" /\ p.what = d
=============================================================================
