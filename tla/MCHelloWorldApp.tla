---------------------------- MODULE MCHelloWorldApp ----------------------------
EXTENDS HelloWorldApp
=============================================================================
