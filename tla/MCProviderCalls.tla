--------------------------- MODULE MCProviderCalls ---------------------------
(* Instances of ProviderCalls.                                               *)
EXTENDS ProviderCalls

\* One task type of every chain and set of required capabilities that occurs.
SomeTasks == {"style_analysis", "content_ideation", "creative_qa", "image_generation"}
\* The keys the API needs to start, with a placeholder's, with Kie AI's, and all.
SomeKeys == {{"openai", "claude"}, {"openai", "claude", "gemini"},
             {"openai", "claude", "kie-ai"}, Keyed}
\* Every branch of the classification by status.
SomeStatuses == {304, 401, 408, 422, 429, 503}
\* Supported canvases (21:9 in another form), one to be snapped, one whose nearest ratio
\* depends on how distances are taken.
SomeCanvases == {<<1080, 1920>>, <<2100, 900>>, <<1200, 628>>, <<41, 20>>}
=============================================================================
