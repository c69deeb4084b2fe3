------------------------------- MODULE Plugins -------------------------------
(***************************************************************************)
(* The autotagging plugins: which are loaded and in which order            *)
(* (tagsistant_plugin_loader), with which filter (the tagsistant_plugin_   *)
(* init() of each), and what tagsistant_process() makes of them for a      *)
(* file: src/src/plugin.c and src/src/plugins/*.c.  libextractor is        *)
(* external: a file is the sequence of keywords it finds there, each a     *)
(* record [name, value].                                                   *)
(***************************************************************************)
EXTENDS Integers, Sequences

CONSTANTS
    MaxKeywords,  \* TAGSISTANT_MAX_KEYWORDS
    Everything,   \* a filter that lets every keyword through
    NoFilter      \* the section has no entry in repository.ini

ASSUME KeywordsAssumption == MaxKeywords \in Nat \ {0}

AnyMime == <<"*", "*">>

\* The plugins of src/src/plugins: the type each declares, the section of
\* repository.ini it asks for its filter, the filter it falls back on, the tags
\* it gives to every file, the namespace of the others, and whether it ends the
\* chain.  Filters are sets of keyword names, a few of each.
Plugin(mime, section, default, tags, ns, stop) ==
    [mime |-> mime, section |-> section, default |-> default, tags |-> tags,
     ns |-> ns, stop |-> stop]

Of == [
    jpeg |-> Plugin(<<"image", "jpeg">>, <<"image", "jpeg">>, {"size"},
                    {<<"image">>, <<"image:", "format">>}, "image:", FALSE),
    gif |-> Plugin(<<"image", "gif">>, <<"image", "gif">>, {"size"},
                   {<<"image">>}, "image:", TRUE),
    png |-> Plugin(<<"image", "png">>, <<"image", "png">>, {"size"},
                   {<<"image">>}, "image:", TRUE),
    photo |-> Plugin(<<"image", "*">>, <<"image", "*">>, {"size", "date"}, {}, "photo:", FALSE),
    html |-> Plugin(<<"text", "html">>, <<"image", "html">>, {"author", "date"},
                    {<<"document">>, <<"webpage">>, <<"html">>}, "document:", TRUE),
    xml |-> Plugin(<<"application", "xml">>, <<"application", "xml">>, {"author", "date"},
                   {<<"document">>}, "document:", TRUE),
    pdf |-> Plugin(<<"application", "pdf">>, <<"application", "pdf">>, {"author", "date"},
                   {<<"document">>}, "PDF:", TRUE),
    mp3 |-> Plugin(<<"audio", "mpeg">>, <<"audio", "mpeg">>, {"artist"},
                   {<<"audio">>}, "audio:", TRUE),
    ogg |-> Plugin(<<"application", "ogg">>, <<"application", "ogg">>, {"artist"},
                   {<<"audio">>}, "audio:", TRUE),
    generic |-> Plugin(AnyMime, AnyMime, Everything, {}, "autotagging:", FALSE)]

Shipped == DOMAIN Of

\* tagsistant_set_init_default(): the sections repository.ini is given, each with
\* the filter its plugin would fall back on.
IniSections == {Of[p].mime : p \in {"xml", "gif", "html", "jpeg", "png", "ogg", "mp3"}}
IniDefault(s) == Of[CHOOSE p \in Shipped : Of[p].mime = s].default

\* tagsistant_plugin_loader(): found is what readdir() returns, in whatever
\* order; a plugin that does not load is skipped, the others go on the head of
\* the list.
LoadedList(found, loads) ==
    LET list[n \in 0 .. Len(found)] ==
            IF n = 0 THEN <<>>
            ELSE IF found[n] \in loads THEN <<found[n]>> \o list[n - 1] ELSE list[n - 1]
    IN list[Len(found)]

\* tagsistant_plugin_init(): the filter in repository.ini, if it has been read
\* and has the section, else the plugin's own.
FilterOf(p, ini) ==
    LET s == Of[p].section
    IN IF s \in DOMAIN ini /\ ini[s] # NoFilter THEN ini[s] ELSE Of[p].default

Passes(filter, keyword) == filter = Everything \/ keyword \in filter

-----------------------------------------------------------------------------
(* tagsistant_process()                                                    *)

\* The keyword buffer holds the first MaxKeywords of them, and the MIME type
\* has to be among those.
Kept(file) == SubSeq(file, 1, IF Len(file) < MaxKeywords THEN Len(file) ELSE MaxKeywords)

MimeTypes(file) == {n \in DOMAIN Kept(file) : Kept(file)[n].name = "mimetype"}

\* The last one found counts.
MimeType(file) ==
    Kept(file)[CHOOSE n \in MimeTypes(file) : \A k \in MimeTypes(file) : k <= n].value

GenericMime(mime) == <<mime[1], "*">>

\* One walk of the list for each: the type, its generic form, any type.
Walks(mime) == <<mime, GenericMime(mime), AnyMime>>

\* The walk w gets to run the plugin at n of the list, unless the chain has ended.
Visits(plugins, mime, w, n) == Of[plugins[n]].mime = Walks(mime)[w]

\* Mutant: any type first.
RunsBackwards(plugins, mime, w, n) ==
    /\ Visits(plugins, mime, w, n)
    /\ \A v \in 1 .. 3, m \in DOMAIN plugins :
        Visits(plugins, mime, v, m) /\ Of[plugins[m]].stop => v < w \/ (v = w /\ n <= m)

\* TP_STOP ends the chain: nothing runs after a plugin that returns it.
Runs(plugins, mime, w, n) ==
    /\ Visits(plugins, mime, w, n)
    /\ \A v \in 1 .. 3, m \in DOMAIN plugins :
        Visits(plugins, mime, v, m) /\ Of[plugins[m]].stop => w < v \/ (w = v /\ n <= m)

Chain(plugins, mime) ==
    {plugins[n] : n \in {k \in DOMAIN plugins : \E w \in 1 .. 3 : Runs(plugins, mime, w, k)}}

\* The tags one plugin gives: its own, then tagsistant_plugin_iterator().  A
\* keyword has one value, which is left out of the triple tag.
TagsBy(p, file, filter) ==
    Of[p].tags \cup {<<Of[p].ns, Kept(file)[n].name>> :
        n \in {k \in DOMAIN Kept(file) : Passes(filter, Kept(file)[k].name)}}

\* All the tags a file receives; none without a MIME type.
Autotags(plugins, file, filters) ==
    IF MimeTypes(file) = {} THEN {}
    ELSE UNION {TagsBy(p, file, filters[p]) : p \in Chain(plugins, MimeType(file))}

-----------------------------------------------------------------------------
(* What the comments say of the chain, without lists: plugin.c:157 "apply  *)
(* plugins starting from the most matching first"; plugin.h:27 TP_STOP     *)
(* "this plugin is authoritative for mimetype, stop chaining".             *)

Rank(p, mime) == IF Of[p].mime = mime THEN 1 ELSE IF Of[p].mime = GenericMime(mime) THEN 2
                 ELSE IF Of[p].mime = AnyMime THEN 3 ELSE 4

\* The plugins in force for a type: nobody more specific is authoritative.
InForce(loads, mime) ==
    {p \in loads : /\ Rank(p, mime) < 4
                   /\ \A q \in loads : Of[q].stop /\ Rank(q, mime) < 4 =>
                                        Rank(p, mime) <= Rank(q, mime)}

ExpectedTags(loads, file, ini) ==
    IF MimeTypes(file) = {} THEN {}
    ELSE UNION {TagsBy(p, file, FilterOf(p, ini)) : p \in InForce(loads, MimeType(file))}
=============================================================================
