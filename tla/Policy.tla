------------------------------- MODULE Policy -------------------------------
(***************************************************************************)
(* What the gateway lets through to api.github.com (src/policy.go,         *)
(* src/graphql.go): the decision on one request that was read whole, as    *)
(* operators; and, beside it, what the upstream may do with that request   *)
(* by the rules of HTTP and GraphQL, as the reference it is held against.  *)
(***************************************************************************)
EXTENDS Naturals, Sequences, SequencesExt

CONSTANTS Names,    \* the names operations have
          Segments  \* what the segments of a path say: "empty", between two slashes, and more

ASSUME NamesAssumption == "unnamed" \notin Names
ASSUME SegmentsAssumption == {"empty", "dot", "dotdot", "graphql"} \subseteq Segments

Classes == {"ro", "w"}
ReadMethods == {"GET", "HEAD"}
WriteMethods == {"POST", "PUT", "PATCH", "DELETE"}
Kinds == {"query", "mutation", "subscription"}

\* "unnamed" is an anonymous operation, and an operationName that is null or
\* empty.
Operation == [kind : Kinds, name : Names \cup {"unnamed"}]
Document == [ok : BOOLEAN, ops : Seq(Operation)]
NameField == [ok : BOOLEAN, name : Names \cup {"unnamed"}]

\* A body by what decodeStrictObject and its caller tell apart: whether it is
\* one JSON object and nothing else, and each occurrence of the keys they read.
\* ok: the value is a string (and, of a document, it parses within the token
\* limit); an element of extensions is whether it holds a persistedQuery.
Body == [shape : {"object", "trailing", "array", "broken"},
         long : BOOLEAN,
         query : Seq(Document),
         operationName : Seq(NameField),
         extensions : Seq(BOOLEAN)]

\* mark: what was escaped in the request line and is a character of the decoded
\* path: behind text the segment goes on with a '?' or a '#' ("end"), or the
\* slash that ends it is such a one ("slash").
Segment == [text : Segments, mark : {"none", "end", "slash"}]

\* path: all of URL.Path; json: the content type is application/json;
\* encoded: there is a Content-Encoding other than identity.
Request == [path : Seq(Segment),
            method : ReadMethods \cup WriteMethods \cup {"OTHER"},
            json : BOOLEAN,
            encoded : BOOLEAN,
            body : Body]

Denials == {"write_requires_publish", "unsupported_request_format", "unsupported_method"}

-----------------------------------------------------------------------------
(* The decision. *)

\* path.Clean of a rooted path, one segment at a time.
Clean(stack, segment) ==
    IF segment \in {"empty", "dot"} THEN stack
    ELSE IF segment # "dotdot" THEN Append(stack, segment)
    ELSE IF stack = <<>> THEN stack ELSE Front(stack)

\* What normalizePath looks at: the path as far as its first '?' or '#'.
BeforeMark(p) ==
    LET M == {i \in DOMAIN p : p[i].mark = "end"}
    IN IF M = {} THEN p ELSE SubSeq(p, 1, CHOOSE i \in M : \A j \in M : i <= j)

Texts(p) == [i \in DOMAIN p |-> p[i].text]

NormalizePath(p) == FoldLeft(Clean, <<>>, Texts(BeforeMark(p)))

\* Defect: subpaths are GraphQL's too.
IsGraphQLPrefix(r) == Len(NormalizePath(r.path)) > 0 /\ NormalizePath(r.path)[1] = "graphql"

IsGraphQLPath(r) == NormalizePath(r.path) = <<"graphql">>

IfWritable(class) == IF class = "w" THEN "nil" ELSE "write_requires_publish"

AuthorizeREST(class, method) ==
    IF method \in ReadMethods THEN "nil"
    ELSE IF method \in WriteMethods THEN IfWritable(class)
    ELSE "unsupported_method"

\* Defect: duplicate keys are not refused, the first one counts.
FirstKeyWins(b) == b.shape = "object"

\* decodeStrictObject: one object, no key twice, nothing after it.
StrictObject(b) ==
    /\ b.shape = "object"
    /\ Len(b.query) <= 1 /\ Len(b.operationName) <= 1 /\ Len(b.extensions) <= 1

NameOf(names) == IF names = <<>> THEN "unnamed" ELSE names[1].name

\* The operations of a document a request may select.
Candidates(ops, name) == {i \in DOMAIN ops : name # "unnamed" => ops[i].name = name}

\* selectOperation: the first operation of that name, or the only one.
SelectOperation(ops, name) ==
    LET C == Candidates(ops, name)
    IN IF C = {} \/ (name = "unnamed" /\ Len(ops) > 1) THEN "none"
       ELSE ops[CHOOSE i \in C : \A j \in C : i <= j].kind

\* The kind of the operation the gateway expects to be executed; "none" is a
\* request it will not read anything certain out of.
ClassifyGraphQL(b) ==
    IF /\ ~b.long
       /\ StrictObject(b)
       /\ \A i \in DOMAIN b.extensions : ~b.extensions[i]
       /\ b.query # <<>> /\ b.query[1].ok
       /\ \A i \in DOMAIN b.operationName : b.operationName[i].ok
    THEN SelectOperation(b.query[1].ops, NameOf(b.operationName))
    ELSE "none"

AuthorizeGraphQL(class, r) ==
    IF r.method # "POST" \/ ~r.json \/ r.encoded THEN "unsupported_request_format"
    ELSE CASE ClassifyGraphQL(r.body) = "query" -> "nil"
           [] ClassifyGraphQL(r.body) = "mutation" -> IfWritable(class)
           [] OTHER -> "unsupported_request_format"

Authorize(class, r) ==
    IF IsGraphQLPath(r) THEN AuthorizeGraphQL(class, r) ELSE AuthorizeREST(class, r.method)

-----------------------------------------------------------------------------
(* The reference: what a server may do with a request. *)

\* Lone anonymous operation and unique operation names: a server executes no
\* document without them.
ValidDocument(ops) ==
    \A i, j \in DOMAIN ops : i # j => ops[i].name # ops[j].name /\ ops[i].name # "unnamed"

\* The kinds a server may execute of a document: GetOperation(doc, name).
Executes(d, name) ==
    {k \in Kinds :
        \/ ~d.ok
        \/ /\ ValidDocument(d.ops)
           /\ name = "unnamed" => Len(d.ops) = 1
           /\ \E i \in DOMAIN d.ops :
                 d.ops[i].kind = k /\ (name # "unnamed" => d.ops[i].name = name)}

\* Of a stored document, a batch or what is not JSON nothing is known.
Opaque(r) ==
    \/ ~r.json \/ r.encoded \/ r.body.shape # "object"
    \/ \E i \in DOMAIN r.body.extensions : r.body.extensions[i]
    \/ \E i \in DOMAIN r.body.operationName : ~r.body.operationName[i].ok

NamesGiven(b) ==
    IF b.operationName = <<>> THEN {"unnamed"} ELSE {f.name : f \in Range(b.operationName)}

\* The kinds it may execute of a body: of a key that occurs twice either value
\* may count.
MayExecute(r) ==
    {k \in Kinds : \/ Opaque(r)
                   \/ \E d \in Range(r.body.query), name \in NamesGiven(r.body) :
                         k \in Executes(d, name)}

\* forward sends the whole path with its escapes.  To the upstream a '?' or '#'
\* is a character of a name like any other, in a segment that is none of those
\* Clean knows; an escaped slash is a slash or such a character too, which then
\* makes one segment of two.
Readings(p) ==
    {[i \in DOMAIN p |-> IF p[i].mark = "end" THEN "other" ELSE p[i].text],
     [i \in DOMAIN p |-> IF i > 1 /\ p[i - 1].mark = "slash" THEN "empty"
                         ELSE IF p[i].mark # "none" THEN "other" ELSE p[i].text]}

\* A path that cleans to /graphql is served as GraphQL or not at all.
AtGraphQL(texts) == FoldLeft(Clean, <<>>, texts) = <<"graphql">>

\* The upstream only reads, whatever it makes of the request.
OnlyReads(r) ==
    \A p \in Readings(r.path) :
        IF AtGraphQL(p) /\ r.method = "POST" THEN MayExecute(r) \subseteq {"query"}
        ELSE r.method \in ReadMethods

Marked(r) == \E i \in DOMAIN r.path : r.path[i].mark # "none"

\* A query's document posted to a path that need not be GraphQL's.
QueryElsewhere(r) ==
    /\ Marked(r) /\ \E p \in Readings(r.path) : ~AtGraphQL(p)
    /\ r.method = "POST" /\ MayExecute(r) \subseteq {"query"}

\* A request nobody could object to: whole, plain, and it executes a query.
PlainRead(r) ==
    /\ ~Marked(r)
    /\ IF \E p \in Readings(r.path) : AtGraphQL(p)
       THEN /\ r.method = "POST" /\ r.json /\ ~r.encoded
            /\ ~r.body.long /\ r.body.shape = "object"
            /\ Len(r.body.query) = 1 /\ r.body.query[1].ok
            /\ Len(r.body.operationName) <= 1 /\ Len(r.body.extensions) <= 1
            /\ MayExecute(r) = {"query"}
       ELSE r.method \in ReadMethods

=============================================================================
