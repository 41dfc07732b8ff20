------------------------- MODULE ReleasePublishing -------------------------
(***************************************************************************)
(* Publishing a version (scripts/release.mjs and scripts/publish.mjs): the *)
(* npm packages one by one, the container image and its channel tag, the   *)
(* MCP Registry, the Git tag and the GitHub Release, with no progress file *)
(* but the destinations.  An attempt may die at any step and is resumed    *)
(* with the same version and commit, perhaps after a newer version went    *)
(* out.  Attempts do not overlap (the workflow's concurrency group); one   *)
(* npm tag, "latest", is modelled, and a destination answers with what it  *)
(* holds.  The Claude Code plugin branch follows npm's tag.                *)
(***************************************************************************)
EXTENDS Naturals, FiniteSets, Sequences

CONSTANTS
    ReleaseVersions,   \* the newest version: the versions are 1 .. ReleaseVersions
    TouchedByHand,     \* bound: the versions whose tag or draft people make
    PackageOrder,      \* the packages in the order they are published in, fluxmail last
    NoVersion          \* a tag that is not there (0, older than every version)

ASSUME ReleasePublishingAssumption ==
    /\ ReleaseVersions \in Nat \ {0} /\ TouchedByHand \subseteq 1 .. ReleaseVersions
    /\ PackageOrder \in Seq(STRING) /\ PackageOrder # <<>>
    /\ NoVersion = 0

ReleaseVersion == 1 .. ReleaseVersions
Packages == {PackageOrder[i] : i \in DOMAIN PackageOrder}
MainPackage == PackageOrder[Len(PackageOrder)]

VARIABLES
    onNpm,          \* the versions of each package that npm has
    npmTag,         \* the version the npm tag of each package names
    images,         \* the versions whose container image exists
    imageChannel,   \* the version whose image the channel tag names
    inRegistry,     \* the versions the MCP Registry lists
    gitTag,         \* what each version's Git tag names: "none", "approved" or "other" commit
    githubRelease,  \* "missing", "draft", "foreign" (a draft of another commit), "spoiled"
                    \* (a draft with uploaded assets) or "published"
    latestRelease,  \* the version GitHub shows as the latest release
    publishing,        \* the attempt under way: [version, stage, missing, historical, seen]
    pluginBranch,   \* the version on the plugin's branch
    pluginJob       \* the version a plugin refresh found to be npm's

releaseVars == <<onNpm, npmTag, images, imageChannel, inRegistry, gitTag, githubRelease,
                 latestRelease, publishing, pluginBranch, pluginJob>>

destinationVars == <<onNpm, npmTag, images, imageChannel, inRegistry, gitTag, githubRelease,
                     latestRelease>>
pluginVars == <<pluginBranch, pluginJob>>

NotPublishing == [version |-> NoVersion, stage |-> "none", missing |-> {}, historical |-> FALSE,
              seen |-> "missing"]

-----------------------------------------------------------------------------
(* Reading the destinations. *)

Missing(v) == {p \in Packages : v \notin onNpm[p]}
Mismatched(v) == {p \in Packages : v \in onNpm[p] /\ npmTag[p] # v}

(* classifyNpmChannel(): every package is out and all their tags name one newer version. *)
Historical(v) ==
    /\ Missing(v) = {}
    /\ Mismatched(v) = Packages
    /\ \E newer \in ReleaseVersion : newer > v /\ \A p \in Packages : npmTag[p] = newer

(* A mutant: a channel that is ahead does not stop an older version. *)
NpmInconsistentIfMixed(v) == ~Historical(v) /\ Mismatched(v) # {}

NpmInconsistent(v) ==
    /\ ~Historical(v)
    /\ \/ Mismatched(v) # {}
       \/ Missing(v) # {} /\ \E p \in Packages : npmTag[p] > v

ChannelVersion(v) == IF Historical(v) THEN npmTag[MainPackage] ELSE v

ChannelMatches(v) == ChannelVersion(v) \in images /\ imageChannel = ChannelVersion(v)

(* planNpmAndDockerRelease() and planRelease(): the states no attempt goes on from. *)
ImageBeforePackages(v) == v \in images /\ Missing(v) # {}

NotAllOut(v) ==
    \/ Missing(v) # {}
    \/ v \notin images
    \/ ~ChannelMatches(v)
    \/ v \notin inRegistry
    \/ gitTag[v] = "none"

Inconsistent(v) ==
    \/ NpmInconsistent(v)
    \/ Historical(v) /\ ~ChannelMatches(v)
    \/ ImageBeforePackages(v)
    \/ githubRelease[v] = "published" /\ NotAllOut(v)
    \/ githubRelease[v] = "spoiled"

(* assertExistingGitState(): a tag, or a draft without a tag, of another commit is refused. *)
GitStateFits(v) ==
    /\ gitTag[v] # "other"
    /\ ~(githubRelease[v] = "foreign" /\ gitTag[v] = "none")

PublishNpmOrDocker(v) ==
    Missing(v) # {} \/ v \notin images \/ (~Historical(v) /\ ~ChannelMatches(v))

(* The stage the plan goes to when the packages and the image are out, and the registry is. *)
AfterRegistry(v) == IF githubRelease[v] # "published" \/ gitTag[v] = "none" THEN "tag" ELSE "verify"
AfterImage(v)    == IF v \notin inRegistry THEN "registry" ELSE AfterRegistry(v)

AttemptAt(v, stage) == [version |-> v, stage |-> stage, missing |-> Missing(v),
                        historical |-> Historical(v), seen |-> githubRelease[v]]

-----------------------------------------------------------------------------
ReleaseInit ==
    /\ onNpm = [p \in Packages |-> {}]
    /\ npmTag = [p \in Packages |-> NoVersion]
    /\ images = {}
    /\ imageChannel = NoVersion
    /\ inRegistry = {}
    /\ gitTag = [v \in ReleaseVersion |-> "none"]
    /\ githubRelease = [v \in ReleaseVersion |-> "missing"]
    /\ latestRelease = NoVersion
    /\ publishing = NotPublishing
    /\ pluginBranch = NoVersion
    /\ pluginJob = NoVersion

(* publish(): the destinations are inspected; an inconsistent plan ends the command. *)
BeginPublish(v) ==
    /\ publishing = NotPublishing
    /\ GitStateFits(v) /\ ~Inconsistent(v)
    /\ publishing' = AttemptAt(v, IF PublishNpmOrDocker(v) THEN "packages" ELSE AfterImage(v))
    /\ UNCHANGED <<destinationVars, pluginVars>>

(* publishPackage() of the next package the plan misses. *)
PublishPackage ==
    \E i \in DOMAIN PackageOrder :
        LET p == PackageOrder[i]
            v == publishing.version
        IN  /\ publishing.stage = "packages"
            /\ p \in publishing.missing
            /\ \A j \in 1 .. i - 1 : PackageOrder[j] \notin publishing.missing
            /\ onNpm' = [onNpm EXCEPT ![p] = @ \cup {v}]
            /\ npmTag' = [npmTag EXCEPT ![p] = v]
            /\ publishing' = [publishing EXCEPT !.missing = @ \ {p}]
            /\ UNCHANGED <<images, imageChannel, inRegistry, gitTag, githubRelease,
                           latestRelease, pluginVars>>

(* The packages are inspected again: one that is not there, or a tag that moved, is a failure. *)
ConfirmPackages ==
    LET v == publishing.version
    IN  /\ publishing.stage = "packages" /\ publishing.missing = {}
        /\ publishing' = IF Missing(v) = {} /\ ~NpmInconsistent(v)
                          /\ Historical(v) = publishing.historical
                      THEN [publishing EXCEPT !.stage = "image"]
                      ELSE NotPublishing
        /\ UNCHANGED <<destinationVars, pluginVars>>

(* A mutant: the image is pushed while packages are still missing. *)
PushImageFirst ==
    /\ publishing.stage \in {"packages", "image"}
    /\ images' = images \cup {publishing.version}
    /\ publishing' = [publishing EXCEPT !.stage = IF @ = "image" THEN "channel" ELSE @]
    /\ UNCHANGED <<onNpm, npmTag, imageChannel, inRegistry, gitTag, githubRelease,
                   latestRelease, pluginVars>>

(* The image is pushed unless it exists; the push of its tags may die between the two. *)
PushImage ==
    /\ publishing.stage = "image"
    /\ images' = images \cup {publishing.version}
    /\ publishing' = [publishing EXCEPT !.stage = "channel"]
    /\ UNCHANGED <<onNpm, npmTag, imageChannel, inRegistry, gitTag, githubRelease,
                   latestRelease, pluginVars>>

(* The channel tag, with the push or as a repair, unless a newer version has the channel. *)
PushChannel ==
    /\ publishing.stage = "channel"
    /\ imageChannel' = IF publishing.historical THEN imageChannel ELSE publishing.version
    /\ publishing' = [publishing EXCEPT !.stage = "core"]
    /\ UNCHANGED <<onNpm, npmTag, images, inRegistry, gitTag, githubRelease, latestRelease,
                   pluginVars>>

(* publish() inspects again: after the image ... *)
ConfirmImage ==
    LET v == publishing.version
    IN  /\ publishing.stage = "core"
        /\ publishing' = IF Inconsistent(v) \/ PublishNpmOrDocker(v) THEN NotPublishing
                                                                 ELSE AttemptAt(v, AfterImage(v))
        /\ UNCHANGED <<destinationVars, pluginVars>>

(* ... and after the registry. *)
ConfirmRegistry ==
    LET v == publishing.version
    IN  /\ publishing.stage = "registered"
        /\ publishing' = IF Inconsistent(v) \/ v \notin inRegistry THEN NotPublishing
                                                               ELSE AttemptAt(v, AfterRegistry(v))
        /\ UNCHANGED <<destinationVars, pluginVars>>

PublishRegistry ==
    /\ publishing.stage = "registry"
    /\ inRegistry' = inRegistry \cup {publishing.version}
    /\ publishing' = [publishing EXCEPT !.stage = "registered"]
    /\ UNCHANGED <<onNpm, npmTag, images, imageChannel, gitTag, githubRelease, latestRelease,
                   pluginVars>>

(* publishGitHubRelease(): the tag, which a push without force never moves ... *)
PushGitTag ==
    LET v == publishing.version
    IN  /\ publishing.stage = "tag"
        /\ IF gitTag[v] = "other"
           THEN publishing' = NotPublishing /\ UNCHANGED gitTag
           ELSE /\ gitTag' = [gitTag EXCEPT ![v] = "approved"]
                /\ publishing' = [publishing EXCEPT !.stage = "announce"]
        /\ UNCHANGED <<onNpm, npmTag, images, imageChannel, inRegistry, githubRelease,
                       latestRelease, pluginVars>>

(* isHistoricalBackfill(): a published release has this commit among its ancestors. *)
Backfill(v) == \E newer \in ReleaseVersion : newer > v /\ githubRelease[newer] = "published"

(* ... and the release, created or edited out of its draft, as the inspection found it. *)
Announce ==
    LET v == publishing.version
    IN  /\ publishing.stage = "announce"
        /\ IF publishing.seen # githubRelease[v] /\ publishing.seen = "missing"
           THEN /\ publishing' = NotPublishing       \* gh release create: it exists already
                /\ UNCHANGED <<githubRelease, latestRelease>>
           ELSE /\ githubRelease' = [githubRelease EXCEPT ![v] = "published"]
                /\ latestRelease' = IF publishing.historical \/ Backfill(v) THEN latestRelease ELSE v
                /\ publishing' = [publishing EXCEPT !.stage = "verify"]
        /\ UNCHANGED <<onNpm, npmTag, images, imageChannel, inRegistry, gitTag, pluginVars>>

(* verifyRelease(): the last inspection, after which the command succeeds or fails. *)
EndPublish ==
    /\ publishing.stage = "verify"
    /\ publishing' = NotPublishing
    /\ UNCHANGED <<destinationVars, pluginVars>>

(* A command fails, or the job dies: nothing is undone. *)
AttemptDies ==
    /\ publishing # NotPublishing
    /\ publishing' = NotPublishing
    /\ UNCHANGED <<destinationVars, pluginVars>>

(* publishClaudePlugin(): npm's tag is read, and the branch is pushed later, by one job at a time. *)
BeginPlugin(v) ==
    /\ pluginJob = NoVersion
    /\ npmTag[MainPackage] = v
    /\ pluginJob' = v
    /\ UNCHANGED <<destinationVars, publishing, pluginBranch>>

PushPlugin ==
    /\ pluginJob # NoVersion
    /\ pluginBranch' = pluginJob
    /\ pluginJob' = NoVersion
    /\ UNCHANGED <<destinationVars, publishing>>

(* People at GitHub: a draft of the release, or a tag of another commit. *)
OpenDraft(v, kind) ==
    /\ githubRelease[v] = "missing"
    /\ githubRelease' = [githubRelease EXCEPT ![v] = kind]
    /\ UNCHANGED <<onNpm, npmTag, images, imageChannel, inRegistry, gitTag, latestRelease,
                   publishing, pluginVars>>

TagElsewhere(v) ==
    /\ gitTag[v] = "none"
    /\ gitTag' = [gitTag EXCEPT ![v] = "other"]
    /\ UNCHANGED <<onNpm, npmTag, images, imageChannel, inRegistry, githubRelease,
                   latestRelease, publishing, pluginVars>>

ReleaseNext ==
    \/ \E v \in ReleaseVersion :
           BeginPublish(v) \/ BeginPlugin(v)
    \/ \E v \in TouchedByHand :
           TagElsewhere(v) \/ \E kind \in {"draft", "foreign", "spoiled"} : OpenDraft(v, kind)
    \/ PublishPackage \/ ConfirmPackages \/ PushImage \/ PushChannel \/ ConfirmImage
    \/ PublishRegistry \/ ConfirmRegistry \/ PushGitTag \/ Announce \/ EndPublish \/ AttemptDies
    \/ PushPlugin

ReleaseSpec == ReleaseInit /\ [][ReleaseNext]_releaseVars

-----------------------------------------------------------------------------
ReleaseTypeOK ==
    LET Tagged == {NoVersion} \cup ReleaseVersion
    IN  /\ onNpm \in [Packages -> SUBSET ReleaseVersion]
        /\ npmTag \in [Packages -> Tagged]
        /\ images \subseteq ReleaseVersion
        /\ inRegistry \subseteq ReleaseVersion
        /\ {imageChannel, latestRelease, pluginBranch, pluginJob} \subseteq Tagged
        /\ gitTag \in [ReleaseVersion -> {"none", "approved", "other"}]
        /\ githubRelease \in [ReleaseVersion -> {"missing", "draft", "foreign", "spoiled", "published"}]
        /\ publishing \in [version : Tagged, stage : {"none", "packages", "image", "channel", "core",
                        "registry", "registered", "tag", "announce", "verify"},
                        missing : SUBSET Packages, historical : BOOLEAN,
                        seen : {"missing", "draft", "foreign", "spoiled", "published"}]

(* Wherever an attempt dies, the version can be resumed: as long as no newer version took a *)
(* tag and nobody touched the tag or the draft, what is there is never a state the plan     *)
(* refuses (the order of publish() in release.mjs and of main() in publish.mjs against      *)
(* planRelease() and planNpmAndDockerRelease()).                                            *)
AlwaysResumable ==
    \A v \in ReleaseVersion :
        (/\ \A p \in Packages : npmTag[p] <= v
         /\ githubRelease[v] # "spoiled" /\ gitTag[v] # "other")
        => ~Inconsistent(v)

(* The channels people install from only move forward: the npm tag of a package, the image's *)
(* channel tag, GitHub's latest release and the plugin never go back to an older version,    *)
(* also when an older release is resumed after a newer one (classifyNpmChannel(),            *)
(* isHistoricalBackfill() and publishClaudePlugin()).                                        *)
ChannelsOnlyAdvance ==
    [][/\ \A p \in Packages : npmTag'[p] >= npmTag[p]
       /\ imageChannel' >= imageChannel
       /\ latestRelease' >= latestRelease
       /\ pluginBranch' >= pluginBranch]_releaseVars
=============================================================================
