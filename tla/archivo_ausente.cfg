SPECIFICATION Spec
CONSTANTS
    Nombres = {a, b}
    BlockCount = 8
    BlockSize = 2
    Tamanios = {0, 3, 7}
    Largos = {2}
    Punteros = {1, 2}
    Valores = {1}
    Ausentes = {"DELETE"}
    LeeFuera = FALSE
    SinCorte = {"retirar", "compactar", "mover", "guardar", "pegar", "reubicar", "ampliar"}
    MaxReinicios = 1
    Nadie = Nadie
    Basura = Basura
PROPERTY SoloElPedido
CHECK_DEADLOCK FALSE
