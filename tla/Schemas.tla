------------------------------- MODULE Schemas -------------------------------
(***************************************************************************)
(* From a Go struct to a mapping: which fields a document has              *)
(* (src/fields.go, and the generator's copy in src/cmd/esodmgen/           *)
(* resolve.go), what their tags say, and which schemas are accepted        *)
(* (src/schema.go, src/relations.go).  What the mapping has to agree with  *)
(* is encoding/json, which writes the documents.                           *)
(*                                                                         *)
(* A case is given, and one step computes its result.  A struct is a       *)
(* sequence of fields; the struct types of a case are a table.  A tag is   *)
(* what parseTag makes of it, a function from its keys to their values.  A *)
(* mapping is a function from the paths of fields to their attributes.     *)
(***************************************************************************)
EXTENDS Integers, Sequences, FiniteSets
LOCAL INSTANCE SequencesExt
LOCAL INSTANCE Functions
LOCAL INSTANCE TLC

CONSTANT Nil

VARIABLES given, result

Types == {"Doc", "Base", "Mixin"}

\* A field: its Go name, json and es tags, kind, and type if it is a struct.
Field(go, json, es, kind, of) ==
  [go |-> go, exported |-> go # "a", embedded |-> FALSE, json |-> json, es |-> es,
   kind |-> kind, of |-> of, marshaler |-> FALSE]
Plain(go, json) == Field(go, json, <<>>, "string", Nil)
Embed(type, json) == [Field(type, json, <<>>, "struct", type) EXCEPT !.embedded = TRUE]
Typed(type) == [type |-> type]
\* The tag es:"-", and one that parseTag refuses.
Excluded == "-" :> "-"
Malformed == "?" :> "?"

Fields ==
  {Plain("A", ""), Plain("B", "A"), Plain("B", ""), Plain("A", "-"), Plain("B", "'"),
   Plain("a", "A")}
Structs ==
  [kind : {"fields"}, types :
     {[Doc |-> <<f>> \o e, Base |-> <<g>> \o b, Mixin |-> <<h>>] :
        f \in Fields \union {[Plain("A", json) EXCEPT !.es = Excluded] : json \in {"", "-"}},
        g \in Fields, h \in Fields,
        e \in {<<>>, <<Embed("Base", "")>>, <<Embed("Base", ""), Embed("Mixin", "")>>,
               <<Embed("Base", "A")>>, <<[Embed("Base", "") EXCEPT !.es = Typed("object")]>>,
               <<[Embed("Base", "") EXCEPT !.marshaler = TRUE]>>},
        b \in {<<>>, <<Embed("Mixin", "")>>, <<Embed("Base", "")>>}}]

Vector == [type |-> "dense_vector", dims |-> "3"]
Tags ==
  {<<>>, Typed("text"), Typed("date"), Typed("join"), Typed("nested"), Typed("dense_vector"),
   Vector, [index |-> "false"], Malformed}
Join(relations) == [type |-> "join", relations |-> relations]
Relations ==
  {<<>>, [p |-> <<"c">>], [p |-> <<"c">>, c |-> <<"g">>], [p |-> <<>>], [p |-> <<"p">>],
   [p |-> Nil]}
Overrides ==
  {<<>>, [A |-> Typed("text")], [A |-> Typed("object")],
   [A |-> [type |-> "dense_vector", dims |-> "4097"]], [Z |-> Typed("text")],
   [A |-> Join([p |-> <<"c">>]), B |-> Join([p |-> <<"c">>])]}
  \union {[A |-> Join(r)] : r \in Relations}
Documents ==
  [kind : {"schema"}, override : Overrides, stamp : {"", "A", "Z"},
   types : {[Doc |-> <<[f EXCEPT !.es = es], Plain("B", "")>> \o e,
             Base |-> <<g>>, Mixin |-> <<Plain("B", "C")>>] :
              e \in {<<>>, <<Embed("Mixin", "")>>}, es \in Tags,
              f \in {Field("A", "", <<>>, kind, "Base") :
                       kind \in {"string", "int", "bytes", "time", "struct", "map", "chan"}}
                    \union {[Field("A", "", <<>>, "struct", "Base") EXCEPT !.marshaler = TRUE]},
              g \in {Plain("A", ""), Field("T", "", Typed("text"), "string", Nil),
                     Plain("ObjectField", "f"), Field("V", "", Vector, "floats", Nil),
                     Field("V", "", <<>>, "struct", "Doc")}}]
Mappings ==
  [kind : {"mapping"}, stamp : {"", "A"},
   mapping : {<<>>} \union {<<"A">> :> m : m \in {[type |-> "date"], [type |-> "rank_vectors"]}}
             \union {<<"A">> :> Join(r) : r \in Relations}
             \union {(<<"A">> :> [type |-> "nested"])
                     @@ (<<"A", "V">> :> [type |-> "dense_vector"])}]
Children ==
  [kind : {"join"}, relations : Relations, name : {"p", "c", "g", "", "other"},
   parent : {"", "1"}, routing : {"", "r"}]

Init ==
  /\ given \in Structs \union Documents \union Mappings \union Children
  /\ result = Nil

-----------------------------------------------------------------------------
\* jsonFields

\* A tag name with characters that JSON names may not have is ignored.
ValidJSONTag(name) == name \notin {"", "'"}
TagName(f) == IF f.json = "-" \/ ValidJSONTag(f.json) THEN f.json ELSE ""
Considered(f) == f.exported \/ (f.embedded /\ f.kind = "struct")
Promotes(f) == Considered(f) /\ f.embedded /\ TagName(f) = "" /\ f.kind = "struct"

\* The structs whose fields are promoted, by the embeddings they are reached
\* through, n of them.  A longer path than there are types has met one twice.
PathsOf(types, type) ==
  LET paths[n \in 0..Cardinality(Types)] ==
        IF n = 0 THEN {<<type>>}
        ELSE UNION {{Append(p, f.of) : f \in {f \in Range(types[Last(p)]) : Promotes(f)}} :
                      p \in paths[n - 1]}
  IN  paths

\* What has to be spelled out otherwise.
RefusesField(f) ==
  /\ Considered(f)
  /\ \/ f.es = Excluded /\ f.json # "-"
     \/ Promotes(f) /\ (f.es # <<>> \/ f.marshaler)

Candidates(types, type) ==
  UNION {{[name |-> IF TagName(f) = "" THEN f.go ELSE TagName(f), tagged |-> TagName(f) # "",
           path |-> p, field |-> f] :
             f \in {f \in Range(types[Last(p)]) : Considered(f) /\ ~Promotes(f) /\ f.json # "-"}} :
           p \in UNION Range(PathsOf(types, type))}

\* Mutant: a tag counts before depth does.
TaggedFirst(group) ==
  LET tagged == {c \in group : c.tagged} from == IF tagged # {} THEN tagged ELSE group IN
  {c \in from : \A d \in from : Len(c.path) <= Len(d.path)}
\* Shallower fields dominate, and at equal depth those with a name of their own.
Visible(group) ==
  LET shallow == {c \in group : \A d \in group : Len(c.path) <= Len(d.path)}
      tagged == {c \in shallow : c.tagged}
  IN  IF tagged # {} THEN tagged ELSE shallow

\* The fields by name, Nil for an error: what is ambiguous is refused, and so
\* is a struct that embeds itself.
Dominant(candidates) ==
  [name \in {c.name : c \in candidates} |-> Visible({c \in candidates : c.name = name})]
Unique(group) ==
  IF \E name \in DOMAIN group : Cardinality(group[name]) # 1 THEN Nil
  ELSE [name \in DOMAIN group |-> (CHOOSE c \in group[name] : TRUE).field]
RefusesPaths(types, paths) ==
  \/ paths[Cardinality(Types)] # {}
  \/ \E p \in UNION Range(paths) : \E f \in Range(types[Last(p)]) : RefusesField(f)
JSONFields(types, type) ==
  IF RefusesPaths(types, PathsOf(types, type)) THEN Nil
  ELSE Unique(Dominant(Candidates(types, type)))

\* visibleFields: the generator collects the fields over go/types, and the
\* structs it is in (seen) are what it knows of where it is.
Collected(types) ==
  LET collect[type \in Types, seen \in SUBSET Types] ==
        UNION {CASE ~f.exported /\ ~(f.embedded /\ f.kind = "struct") -> {}
                 [] f.es = Excluded /\ f.json # "-" -> {Nil}
                 [] f.json = "-" -> {}
                 [] f.embedded /\ f.kind = "struct" /\ ~ValidJSONTag(f.json) ->
                      IF f.es # <<>> \/ f.marshaler \/ f.of \in seen \union {type} THEN {Nil}
                      ELSE collect[f.of, seen \union {type}]
                 [] OTHER -> {[name |-> IF ValidJSONTag(f.json) THEN f.json ELSE f.go,
                               tagged |-> ValidJSONTag(f.json), depth |-> Cardinality(seen),
                               within |-> type, field |-> f]} :
                 f \in Range(types[type])}
  IN  collect
\* Of one name: the least deep, of these the tagged ones if there are any.
Foremost(list) ==
  LET fields == {f \in list : \A g \in list : f.depth <= g.depth} IN
  IF \E f \in fields : f.tagged THEN {f \in fields : f.tagged} ELSE fields
Resolved(list) ==
  IF Nil \in list THEN Nil
  ELSE Unique([name \in {f.name : f \in list} |-> Foremost({f \in list : f.name = name})])
VisibleFields(types, type) == Resolved(Collected(types)[type, {}])

ResolveFields ==
  /\ given.kind = "fields" /\ result = Nil
  /\ LET schema == JSONFields(given.types, "Doc") generated == VisibleFields(given.types, "Doc") IN
     result' = [err |-> schema = Nil \/ generated = Nil, schema |-> schema, generated |-> generated]
  /\ UNCHANGED given

-----------------------------------------------------------------------------
\* The type a kind has unless its tag gives one; Nil if it cannot be inferred.
TypeOf ==
  [string |-> "keyword", int |-> "long", floats |-> "double", bytes |-> "binary", time |-> "date",
   struct |-> "object", map |-> Nil]

\* inferProperties, for one field: what parseTag makes of its tag, and the
\* type its kind has if the tag gives none.
Inferred(f) ==
  IF f.es = Malformed \/ f.kind \notin DOMAIN TypeOf THEN Nil
  ELSE IF "type" \in DOMAIN f.es THEN f.es
  ELSE IF TypeOf[f.kind] = Nil THEN Nil
  ELSE f.es @@ [type |-> TypeOf[f.kind]]

\* The fields of a struct as a reader resolves them, and the fields whose own
\* fields it looks into: the schema those it maps as objects, the generator
\* all structs that do not marshal themselves.
FieldsBy(types, type, reader) ==
  IF reader = "schema" THEN JSONFields(types, type) ELSE VisibleFields(types, type)
Opens(f, reader) ==
  /\ f.kind = "struct"
  /\ IF reader = "schema" THEN Inferred(f) # Nil /\ Inferred(f).type \in {"object", "nested"}
     ELSE ~f.marshaler

\* The objects in one at path with these fields, and the fields themselves.
OpenedIn(path, fields, reader) ==
  IF fields = Nil THEN {}
  ELSE {<<Append(path, name), fields[name].of>> :
          name \in {name \in DOMAIN fields : Opens(fields[name], reader)}}
FieldsIn(path, fields) == {<<Append(path, name), fields[name]>> : name \in DOMAIN fields}

\* The objects of a document and the struct types behind them, n deep.
Objects(types, reader) ==
  LET objects[n \in 0..Cardinality(Types)] ==
        IF n = 0 THEN {<< <<>>, "Doc" >>}
        ELSE UNION {OpenedIn(o[1], FieldsBy(types, o[2], reader), reader) : o \in objects[n - 1]}
  IN  objects

\* The fields of all objects, by path; Nil if an object recurs or has no fields
\* that can be resolved.
Flattened(types, objects, reader) ==
  IF \/ objects[Cardinality(Types)] # {}
     \/ \E o \in UNION Range(objects) : FieldsBy(types, o[2], reader) = Nil
  THEN Nil
  ELSE UNION {FieldsIn(o[1], FieldsBy(types, o[2], reader)) : o \in UNION Range(objects)}
FieldsOf(types, reader) == Flattened(types, Objects(types, reader), reader)
AtPath(fields, path) == (CHOOSE f \in fields : f[1] = path)[2]

\* inferProperties: the mapping of all fields, Nil for an error.
InferredOf(fields) ==
  IF fields = Nil THEN Nil
  ELSE IF \E f \in fields : Inferred(f[2]) = Nil THEN Nil
  ELSE [path \in {f[1] : f \in fields} |-> Inferred(AtPath(fields, path))]
InferProperties(types) == InferredOf(FieldsOf(types, "schema"))

\* generateDescriptors: the descriptor a program names a field by, which the
\* generator chooses from the Go type and the tag alone.
Descriptor(f) ==
  CASE f.kind = "time" -> "date"
    [] Opens(f, "generator") -> "object"
    [] f.kind = "string" /\ "type" \in DOMAIN f.es /\ f.es.type = "text" -> "text"
    [] f.kind \in {"string", "int", "floats"} -> "ordered"
    [] OTHER -> "field"
\* One name for two fields of an object, or for a field and the object itself.
Collides(f, fields) ==
  \/ Len(f[1]) > 1 /\ f[2].go = "ObjectField"
  \/ \E g \in fields : f # g /\ Front(f[1]) = Front(g[1]) /\ f[2].go = g[2].go
Descriptors(fields) ==
  IF fields = Nil THEN Nil
  ELSE IF \E f \in fields : Collides(f, fields) THEN Nil
  ELSE [path \in {f[1] : f \in fields} |-> Descriptor(AtPath(fields, path))]
Emit(types) == Descriptors(FieldsOf(types, "generator"))

-----------------------------------------------------------------------------
\* compileJoin: whether the relations of a root field of type join are refused.
RefusesRelations(relations) ==
  \/ DOMAIN relations = {}
  \/ \E parent \in DOMAIN relations :
       relations[parent] \in {Nil, <<>>} \/ Contains(relations[parent], parent)
CompileJoin(mapping) ==
  LET joins == {path \in DOMAIN mapping : Len(path) = 1 /\ mapping[path].type = "join"} IN
  IF \/ Cardinality(joins) > 1
     \/ \E path \in joins : "relations" \notin DOMAIN mapping[path]
                             \/ RefusesRelations(mapping[path].relations)
  THEN "invalid" ELSE "valid"

\* validateStampFields
RefusesStamp(mapping, stamp) ==
  /\ stamp # ""
  /\ <<stamp>> \notin DOMAIN mapping \/ mapping[<<stamp>>].type \notin {"date", "date_nanos"}

\* validateProperties
RefusesProperties(mapping) ==
  \/ \E path \in DOMAIN mapping :
       \/ mapping[path].type = "join"
          /\ \/ Len(path) # 1 \/ "relations" \notin DOMAIN mapping[path]
             \/ mapping[path].relations = <<>>
       \/ mapping[path].type = "dense_vector"
          /\ ("dims" \notin DOMAIN mapping[path] \/ mapping[path].dims # "3")
  \/ Cardinality({path \in DOMAIN mapping : mapping[path].type = "join"}) > 1

Vectors == {"dense_vector", "sparse_vector", "rank_vectors"}
ContainsVectors(mapping) == \E path \in DOMAIN mapping : mapping[path].type \in Vectors

\* An override takes the place of a field and of all below it ...
Override(mapping, overrides) ==
  LET kept == {path \in DOMAIN mapping : path[1] \notin DOMAIN overrides} IN
  [path \in kept \union {<<name>> : name \in DOMAIN overrides} |->
     IF path \in kept THEN mapping[path] ELSE overrides[path[1]]]
\* ... but may not contradict its tag.
Contradicts(tag, override) ==
  \E key \in DOMAIN tag : key \notin DOMAIN override \/ override[key] # tag[key]

\* NewSchema
Schema(mapping) == [mapping |-> mapping, hasVectors |-> ContainsVectors(mapping)]
Checked(mapping, stamp) ==
  IF RefusesStamp(mapping, stamp) \/ RefusesProperties(mapping) THEN Nil
  ELSE IF CompileJoin(mapping) = "invalid" THEN Nil
  ELSE Schema(mapping)
Overridden(types, inferred, overrides, stamp) ==
  IF inferred = Nil THEN Nil
  ELSE IF \E name \in DOMAIN overrides :
            \/ <<name>> \notin DOMAIN inferred
            \/ Contradicts(JSONFields(types, "Doc")[name].es, overrides[name])
  THEN Nil
  ELSE Checked(Override(inferred, overrides), stamp)
NewSchema(types, overrides, stamp) ==
  Overridden(types, InferProperties(types), overrides, stamp)

\* SchemaFromMapping: only what the library itself relies on is checked.
SchemaFromMapping(mapping, stamp) ==
  IF RefusesStamp(mapping, stamp) \/ CompileJoin(mapping) = "invalid" THEN Nil
  ELSE Schema(mapping)

Made(schema, descriptors) ==
  [err |-> schema = Nil, schema |-> schema, descriptors |-> descriptors]
MakeSchema ==
  /\ result = Nil
  /\ \/ /\ given.kind = "schema"
        /\ result' = Made(NewSchema(given.types, given.override, given.stamp), Emit(given.types))
     \/ /\ given.kind = "mapping"
        /\ result' = Made(SchemaFromMapping(given.mapping, given.stamp), Nil)
  /\ UNCHANGED given

\* validateJoin: whether a document of an index with a join is refused, once
\* its schema could be made.
RefusesJoin(relations, name, parent, routing) ==
  LET isParent == name \in DOMAIN relations
      isChild == \E p \in DOMAIN relations : Contains(relations[p], name)
  IN  \/ name = ""
      \/ ~(isParent /\ ~isChild /\ parent = "") /\ (~isChild \/ parent = "" \/ routing = "")
ValidateJoin ==
  /\ given.kind = "join" /\ result = Nil
  /\ result' = [err |-> IF CompileJoin(<<"J">> :> Join(given.relations)) = "invalid" THEN TRUE
                        ELSE RefusesJoin(given.relations, given.name, given.parent,
                                         given.routing)]
  /\ UNCHANGED given

Next == ResolveFields \/ MakeSchema \/ ValidateJoin

Spec == Init /\ [][Next]_<<given, result>>

-----------------------------------------------------------------------------
\* The rules of encoding/json: a field beats another of its name if it is
\* shallower, or as deep and alone in having a name of its own; the names of a
\* document are those of the fields that beat all others.
Beats(c, d) ==
  \/ Len(c.path) < Len(d.path)
  \/ Len(c.path) = Len(d.path) /\ c.tagged /\ ~d.tagged
Winners(types) ==
  {c \in Candidates(types, "Doc") :
     \A d \in Candidates(types, "Doc") \ {c} : d.name = c.name => Beats(c, d)}

\* Relations that say something: every parent has children, itself not one.
ProperRelations(relations) ==
  /\ DOMAIN relations # {}
  /\ \A p \in DOMAIN relations : Len(relations[p]) > 0 /\ p \notin Range(relations[p])

\* A schema describes the documents that encoding/json writes.  The fields
\* found are exactly those it writes, by name, the generator finds and refuses
\* the same, and a name it would drop for being ambiguous is refused; what a tag
\* says is what the mapping has, also under an override; vectors are noticed
\* however deep they are; the stamps of a document are dates of the mapping; a
\* join is one root field, each of its relations has children other than
\* itself, and a document accepted under it is a root without a parent or a
\* child with a parent and a routing.  The generator does not see overrides
\* and opens a struct whatever its mapping, as docs/models.md:224 has it.  In
\* the objects that both open and no override replaces, the descriptors name
\* the fields of the mapping and no others, and one for text is of a field
\* mapped as text.
SchemasFitDocuments ==
  /\ result # Nil /\ given.kind = "fields" => result.generated = result.schema
  /\ result # Nil /\ ~result.err =>
    CASE given.kind = "fields" ->
           LET written == [c \in Winners(given.types) |-> c.name] IN
           /\ DOMAIN result.schema = {c.name : c \in Candidates(given.types, "Doc")}
           /\ \A c \in DOMAIN written : result.schema[c.name] = c.field
           /\ Range(written) = DOMAIN result.schema
      [] given.kind = "join" ->
           LET children == UNION {Range(given.relations[p]) : p \in DOMAIN given.relations} IN
           /\ ProperRelations(given.relations)
           /\ given.name \in DOMAIN given.relations \union children
           /\ given.parent # "" => given.routing # ""
           /\ given.parent = "" <=> given.name \notin children
      [] OTHER ->
           LET mapping == result.schema.mapping
               descriptors == result.descriptors
               OfType(types) == {path \in DOMAIN mapping : mapping[path].type \in types}
               Joins == {path \in OfType({"join"}) : Len(path) = 1}
               Shared(path) ==
                 /\ path[1] \notin DOMAIN given.override
                 /\ \A n \in 1..(Len(path) - 1) :
                      LET object == SubSeq(path, 1, n) IN
                      /\ object \in OfType({"object", "nested"})
                      /\ object \in DOMAIN descriptors /\ descriptors[object] = "object"
           IN  /\ result.schema.hasVectors <=> OfType(Vectors) # {}
               /\ given.stamp # "" => <<given.stamp>> \in OfType({"date", "date_nanos"})
               /\ Cardinality(Joins) <= 1
               /\ \A path \in Joins : ProperRelations(mapping[path].relations)
               /\ given.kind = "schema" =>
                    /\ \A f \in Range(given.types.Doc) : \A key \in DOMAIN f.es :
                         mapping[<<f.go>>][key] = f.es[key]
                    /\ OfType({"join"}) = Joins
               /\ descriptors # Nil =>
                    /\ {path \in DOMAIN descriptors : Shared(path)}
                         = {path \in DOMAIN mapping : Shared(path)}
                    /\ \A path \in DOMAIN descriptors :
                         Shared(path) /\ descriptors[path] = "text" =>
                           mapping[path].type = "text"
=============================================================================
