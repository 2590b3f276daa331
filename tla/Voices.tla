------------------------------- MODULE Voices -------------------------------
(***************************************************************************)
(* How a line of dialogue gets its voice (VoiceoverService.speak).  The    *)
(* text a cast gives as a member's voice is turned into the name of a      *)
(* voice, and the first TTS provider that answers says the line with it.   *)
(* Dialogue is spoken in English.                                          *)
(***************************************************************************)
CONSTANTS Speakers,   \* the TTS providers that are configured
          Picks       \* bound: what a language model picks for a description

Azure == "azure_speech"
OpenAI == "openai_tts"
ElevenLabs == "elevenlabs"
Chatterbox == "chatterbox_fal"

\* VOICE_MATRIX: each has a voice with Azure and one with OpenAI.
Presets == {"professional_female", "professional_male", "casual_female", "casual_male", "narrator"}
DefaultPreset == "professional_female"

\* The families of keywords that are looked for in a description.
Hints == {"narrator", "male", "female", "casual"}

\* What a cast may say of a voice: nothing, the name of a preset, the id of
\* that preset's voice with a provider, or a description.
VoiceTexts == [form : {"empty"}] \union [form : {"preset", "id"}, preset : Presets]
              \union [form : {"words"}, hints : SUBSET Hints]

ASSUME VoiceAssumption ==
    /\ Speakers \subseteq {Azure, OpenAI, ElevenLabs, Chatterbox}
    /\ Picks \subseteq Presets

Named(preset) == [form |-> "preset", preset |-> preset]
Id(preset) == [form |-> "id", preset |-> preset]

-----------------------------------------------------------------------------
\* _fallback_role: keywords, and a neutral voice when they say nothing.
FallbackRole(hints) ==
    LET one == hints \intersect {"male", "female"}
    IN  CASE "narrator" \in hints -> "narrator"
          [] "narrator" \notin hints /\ one = {"male"} ->
               IF "casual" \in hints THEN "casual_male" ELSE "professional_male"
          [] "narrator" \notin hints /\ one = {"female"} ->
               IF "casual" \in hints THEN "casual_female" ELSE "professional_female"
          [] OTHER -> "narrator"

\* _role_from_description: a role the model knows of, else the keywords.
RolesFor(hints) == Picks \union {FallbackRole(hints)}

\* _looks_like_id: such a text is not resolved.  The presets are known by
\* their underscore, which "narrator" does not have.
LooksLikeId(text) ==
    \/ text.form = "id"
    \/ text.form = "preset" /\ text.preset # "narrator"

\* _is_preset
IsPreset(text) == text.form \in {"preset", "id"}

\* resolve: names of presets and descriptions become an Azure voice id.
Resolve(text) ==
    IF ~IsPreset(text)
    THEN {Id(preset) : preset \in RolesFor(text.hints)}
    ELSE {IF text.form = "preset" THEN Id(text.preset) ELSE text}

\* What reaches the providers as voice_preset.
Asked(text) == IF text.form = "empty" \/ LooksLikeId(text) THEN {text} ELSE Resolve(text)

\* resolve_voice: what is not the name of a preset is the default one.
ResolveVoice(text) == IF text.form = "preset" THEN text.preset ELSE DefaultPreset

\* What is heard of each provider: Azure and OpenAI look the preset up,
\* ElevenLabs takes it for the id of a voice of its own, and the clone
\* provider speaks in the one voice it has.
AzureSays(text) == ResolveVoice(text)
OpenAISays(text) == ResolveVoice(text)
ElevenLabsSays(text) == IF text.form = "empty" THEN "default" ELSE "named"
ChatterboxSays(text) == "clone"

Says(speaker, text) ==
    CASE speaker = Azure -> AzureSays(text)
      [] speaker = OpenAI -> OpenAISays(text)
      [] speaker = ElevenLabs -> ElevenLabsSays(text)
      [] speaker = Chatterbox -> ChatterboxSays(text)

Lines == [by : {Azure, OpenAI, ElevenLabs, Chatterbox}, asked : VoiceTexts,
          heard : Presets \union {"default", "named", "clone"}]

\* speak: any provider may be the first that answers.
Spoken(text) == {[by |-> speaker, asked |-> asked, heard |-> Says(speaker, asked)] :
                   speaker \in Speakers, asked \in Asked(text)}
=============================================================================
